---- MODULE Spec2Model ----
(***************************************************************************)
(* Project Gaia: the monitoring pipeline of main.py (fetch_all, then       *)
(* check_volatility, then _handle_alert for each alert, then the daily     *)
(* report, then sleep, until the shutdown signal), the Monitor of          *)
(* core/monitor.py, the DataFetcher of core/fetcher.py, the Brain of       *)
(* core/brain.py and the SQLite store of database/models.py.  Spec is the  *)
(* running system; EvalSpec is check_volatility called on arbitrary maps   *)
(* and samples; StoreSpec is the methods of the store called one by one    *)
(* on hosts in several time zones; FetchSpec is fetch_traditional_price    *)
(* called on arbitrary histories; HandleSpec is _handle_alert run over a   *)
(* list of alerts with a notifier that may fail; DriftSpec is              *)
(* check_volatility on a sequence of small steps; ChunkSpec is the report  *)
(* chunking loop of bot_commands.py; ResetSpec is reset_cooldown followed  *)
(* by check_volatility.                                                    *)
(*                                                                         *)
(* Prices are integers and a volatility is the exact fraction <<n, d>>     *)
(* with d > 0, standing for n / d; comparisons cross-multiply.  Python     *)
(* dicts are functions with a finite domain; lists and tables are          *)
(* sequences in insertion order.                                           *)
(***************************************************************************)
EXTENDS Integers, Sequences, FiniteSets, TLC

\* ------------------------------------------------------------------ bounds
MaxCycles == 3
StartTime == 79200

\* ------------------------------------------------------- program constants
cooldown_period == 1800
MONITOR_INTERVAL == 60

\* how long the phases of one cycle may take
Overruns == {0, cooldown_period - MONITOR_INTERVAL}

\* ------------------------------------------------------------ configuration
\* config/assets.json as AssetsLoader.get_enabled_assets returns it: two
\* instruments with a supported source and one whose source no adapter serves
Assets ==
  << [symbol |-> "BTC/USDT", name |-> "Bitcoin", source |-> "binance",
      threshold |-> <<5, 100>>, level |-> "high"],
     [symbol |-> "GC=F", name |-> "Gold", source |-> "yfinance",
      threshold |-> <<2, 100>>, level |-> "medium"],
     [symbol |-> "000001.SS", name |-> "SSE", source |-> "sina",
      threshold |-> <<5, 100>>, level |-> "low"] >>

Symbols == {Assets[i].symbol : i \in 1..Len(Assets)}

\* DataFetcher.exchanges after _init_exchanges
exchanges == {"binance", "okx", "bybit", "huobi", "kucoin",
              "coinbase", "kraken", "gate", "mexc"}

\* the prices an upstream source may report for an instrument
PricesOf(symbol) ==
  IF symbol = "BTC/USDT" THEN {100, 110}
  ELSE IF symbol = "GC=F" THEN {50, 51}
  ELSE {}

\* the instruments whose upstream fails in some cycles
Flaky == {"BTC/USDT", "000001.SS"}

\* the instruments whose upstream may leave a request unanswered for good
Hanging == {"GC=F"}

\* Monitor.assets: the instrument of a symbol (dict keyed by symbol)
AssetOf(symbol) == CHOOSE a \in {Assets[i] : i \in 1..Len(Assets)} : a.symbol = symbol

\* ---------------------------------------------------------------- helpers
AbsI(x) == IF x < 0 THEN -x ELSE x

\* dict assignment d[k] = v
Put(d, k, v) == [x \in (DOMAIN d) \cup {k} |-> IF x = k THEN v ELSE d[x]]

EmptyMap == [x \in {} |-> 0]

\* ------------------------------------------------------------- the store
\* save_price that leaves a row it finds in the table as it is (INSERT OR
\* IGNORE over a UNIQUE row)
save_price_unique(rows, up, symbol, price, volume, t) ==
  LET row == [symbol |-> symbol, price |-> price,
              volume |-> volume, timestamp |-> t]
  IN IF up /\ \A i \in 1..Len(rows) : rows[i] # row
       THEN Append(rows, row)
       ELSE rows

\* DatabaseManager.save_price: one INSERT into price_history; a failure of
\* the store is logged and swallowed
save_price(rows, up, symbol, price, volume, t) ==
  IF up
    THEN Append(rows, [symbol |-> symbol, price |-> price,
                       volume |-> volume, timestamp |-> t])
    ELSE rows

\* DatabaseManager.save_event: one INSERT into event_log
save_event(rows, up, event, analysis) ==
  IF up
    THEN Append(rows, [symbol |-> event.symbol, price |-> event.current_price,
                       volatility |-> event.volatility,
                       alert_level |-> event.level, ai_analysis |-> analysis,
                       news_summary |-> "", timestamp |-> event.timestamp])
    ELSE rows

\* get_last_alert ordering by timestamp alone, without WHERE symbol = ?
get_last_alert_any_symbol(rows, up, symbol) ==
  LET idx == 1..Len(rows)
  IN IF ~up \/ idx = {} THEN <<>>
     ELSE LET i == CHOOSE j \in idx :
                     \A k \in idx : rows[k].timestamp <= rows[j].timestamp
          IN << rows[i] >>

\* DatabaseManager.get_last_alert: SELECT ... WHERE symbol = ? ORDER BY
\* timestamp DESC LIMIT 1, as a sequence of at most one row (<<>> is None,
\* also when the store fails)
get_last_alert(rows, up, symbol) ==
  LET idx == {i \in 1..Len(rows) : rows[i].symbol = symbol}
  IN IF ~up \/ idx = {} THEN <<>>
     ELSE LET i == CHOOSE j \in idx :
                     \A k \in idx : rows[k].timestamp <= rows[j].timestamp
          IN << rows[i] >>

\* ------------------------------------------------------------ the monitor
\* save_price_call without the except: the failure of the store leaves
\* the call
save_price_call_raising(rows, up, symbol, price, volume, t) ==
  [rows |-> save_price(rows, up, symbol, price, volume, t),
   raised |-> ~up, logged |-> FALSE]

\* save_price as its caller sees it: the table afterwards, whether an
\* exception left the call (the except of save_price catches every
\* Exception) and whether the failure was logged
save_price_call(rows, up, symbol, price, volume, t) ==
  [rows |-> save_price(rows, up, symbol, price, volume, t),
   raised |-> FALSE, logged |-> ~up]

\* the seconds of an hour, for the modifier '-N hours'
HourLength == 3600

\* the seconds of a day, for the modifier '-N days'
DaySeconds == 24 * HourLength

\* SQLite's datetime('now', '-N hours') and datetime('now', '-N days'): the
\* UTC clock, the given seconds back.  t is the local clock, with which
\* datetime.now() stamps the rows; the rows are compared with the UTC
\* cutoff as they are
sqlite_cutoff(t, offset, seconds) == (t - offset) - seconds

\* ORDER BY timestamp DESC over the rows at the positions idx: every order
\* the query may return (rows of equal timestamp come in any order)
RECURSIVE newest_first(_, _)
newest_first(rows, idx) ==
  IF idx = {} THEN {<<>>}
  ELSE UNION {{<<rows[i]>> \o r : r \in newest_first(rows, idx \ {i})} :
                i \in {j \in idx :
                         \A k \in idx : rows[k].timestamp <= rows[j].timestamp}}

\* LIMIT n
limit(r, n) == SubSeq(r, 1, IF Len(r) < n THEN Len(r) ELSE n)

\* DatabaseManager.get_price_history: the results the SELECT may return;
\* [] when the store fails
get_price_history(rows, up, offset, t, symbol, hours) ==
  IF ~up THEN {<<>>}
  ELSE newest_first(rows,
         {i \in 1..Len(rows) :
            /\ rows[i].symbol = symbol
            /\ rows[i].timestamp >= sqlite_cutoff(t, offset,
                                                  hours * HourLength)})

\* DatabaseManager.get_similar_events: abs(volatility) >= abs(v) * 0.8,
\* inside the window, newest first, LIMIT 5; [] when the store fails.  The
\* product is taken exactly; where a stored volatility is 0.8 * |v| itself
\* the rounding of the floating-point product decides, and no call of the
\* model meets that value
get_similar_events(rows, up, offset, t, symbol, volatility, days) ==
  IF ~up THEN {<<>>}
  ELSE {limit(r, 5) :
          r \in newest_first(rows,
                  {i \in 1..Len(rows) :
                     /\ rows[i].symbol = symbol
                     /\ 10 * AbsI(rows[i].volatility[1]) * volatility[2]
                          >= 8 * AbsI(volatility[1]) * rows[i].volatility[2]
                     /\ rows[i].timestamp >= sqlite_cutoff(t, offset,
                                                           days * DaySeconds)})}

\* DatabaseManager.cleanup_old_data: both DELETEs and one commit, or
\* neither when the store fails (the failure is logged, not raised)
cleanup_old_data(prices, events, up, offset, t, days) ==
  LET kept(row) == row.timestamp >= sqlite_cutoff(t, offset, days * DaySeconds)
  IN [price_history |-> IF up THEN SelectSeq(prices, kept) ELSE prices,
      event_log |-> IF up THEN SelectSeq(events, kept) ELSE events,
      raised |-> FALSE, logged |-> ~up]

\* calculate_volatility with the two prices of the difference exchanged
calculate_volatility_exchanged(current_price, last_price) ==
  IF last_price = 0 THEN <<0, 1>>
  ELSE IF last_price < 0
    THEN <<current_price - last_price, -last_price>>
  ELSE <<last_price - current_price, last_price>>

\* Monitor.calculate_volatility: 0.0 for a last price of 0, else
\* (current_price - last_price) / last_price, the fraction written with a
\* positive denominator
calculate_volatility(current_price, last_price) ==
  IF last_price = 0 THEN <<0, 1>>
  ELSE IF last_price < 0
    THEN <<last_price - current_price, -last_price>>
  ELSE <<current_price - last_price, last_price>>

\* check_threshold comparing the signed volatility with the threshold
check_threshold_signed(symbol, volatility) ==
  IF symbol \notin Symbols THEN FALSE
  ELSE LET threshold == AssetOf(symbol).threshold
       IN volatility[1] * threshold[2] >= threshold[1] * volatility[2]

\* Monitor.check_threshold: abs(volatility) >= asset.threshold
check_threshold(symbol, volatility) ==
  IF symbol \notin Symbols THEN FALSE
  ELSE LET threshold == AssetOf(symbol).threshold
       IN AbsI(volatility[1]) * threshold[2] >= threshold[1] * volatility[2]

\* is_in_cooldown with the doubling test written without the factor 2
is_in_cooldown_no_factor(lat, events, up, t, symbol, volatility) ==
  IF symbol \notin DOMAIN lat \/ lat[symbol] = 0 THEN FALSE
  ELSE LET last_alert_data == get_last_alert(events, up, symbol)
       IN IF last_alert_data = <<>> THEN FALSE
          ELSE LET last_volatility == last_alert_data[1].volatility
               IN IF AbsI(volatility[1]) * last_volatility[2]
                       >= AbsI(last_volatility[1]) * volatility[2]
                    THEN FALSE
                    ELSE t - lat[symbol] < cooldown_period

\* is_in_cooldown with the doubling test written with > for >=
is_in_cooldown_strict(lat, events, up, t, symbol, volatility) ==
  IF symbol \notin DOMAIN lat \/ lat[symbol] = 0 THEN FALSE
  ELSE LET last_alert_data == get_last_alert(events, up, symbol)
       IN IF last_alert_data = <<>> THEN FALSE
          ELSE LET last_volatility == last_alert_data[1].volatility
               IN IF AbsI(volatility[1]) * last_volatility[2]
                       > AbsI(last_volatility[1]) * 2 * volatility[2]
                    THEN FALSE
                    ELSE t - lat[symbol] < cooldown_period

\* is_in_cooldown measuring the window from the stored event when the
\* process has no alert time of its own
is_in_cooldown_from_store(lat, events, up, t, symbol, volatility) ==
  LET last_alert_data == get_last_alert(events, up, symbol)
  IN IF last_alert_data = <<>> THEN FALSE
     ELSE LET last_volatility == last_alert_data[1].volatility
              last_alert == IF symbol \in DOMAIN lat THEN lat[symbol]
                            ELSE last_alert_data[1].timestamp
          IN IF AbsI(volatility[1]) * last_volatility[2]
                  >= AbsI(last_volatility[1]) * 2 * volatility[2]
               THEN FALSE
               ELSE t - last_alert < cooldown_period

\* is_in_cooldown with the window closed at its end (<= for <)
is_in_cooldown_closed(lat, events, up, t, symbol, volatility) ==
  IF symbol \notin DOMAIN lat \/ lat[symbol] = 0 THEN FALSE
  ELSE LET last_alert_data == get_last_alert(events, up, symbol)
       IN IF last_alert_data = <<>> THEN FALSE
          ELSE LET last_volatility == last_alert_data[1].volatility
               IN IF AbsI(volatility[1]) * last_volatility[2]
                       >= AbsI(last_volatility[1]) * 2 * volatility[2]
                    THEN FALSE
                    ELSE t - lat[symbol] <= cooldown_period

\* Monitor.is_in_cooldown; lat is Monitor.last_alert_time, events the
\* event_log table, t the value of time.time()
is_in_cooldown(lat, events, up, t, symbol, volatility) ==
  IF symbol \notin DOMAIN lat \/ lat[symbol] = 0 THEN FALSE
  ELSE LET last_alert_data == get_last_alert(events, up, symbol)
       IN IF last_alert_data = <<>> THEN FALSE
          ELSE LET last_volatility == last_alert_data[1].volatility
               IN IF AbsI(volatility[1]) * last_volatility[2]
                       >= AbsI(last_volatility[1]) * 2 * volatility[2]
                    THEN FALSE
                    ELSE t - lat[symbol] < cooldown_period

\* reset_cooldown emptying the whole dict
reset_cooldown_all(lat, symbol) == EmptyMap

\* Monitor.reset_cooldown: del last_alert_time[symbol] if it is there
reset_cooldown(lat, symbol) ==
  IF symbol \in DOMAIN lat
    THEN [x \in DOMAIN lat \ {symbol} |-> lat[x]]
    ELSE lat

\* last_prices.get(symbol, 1): a fixed default for the current price
previous_price_fixed(lp, symbol, current_price) ==
  IF symbol \in DOMAIN lp THEN lp[symbol] ELSE 1

\* last_prices.get(symbol, current_price)
previous_price(lp, symbol, current_price) ==
  IF symbol \in DOMAIN lp THEN lp[symbol] ELSE current_price

\* make_alert with the two prices stored under each other's key
make_alert_swapped(symbol, current_price, last_price, volatility, t) ==
  [symbol |-> symbol, name |-> AssetOf(symbol).name,
   current_price |-> last_price, last_price |-> current_price,
   volatility |-> volatility, timestamp |-> t,
   level |-> AssetOf(symbol).level, threshold |-> AssetOf(symbol).threshold]

\* the alert dict built in check_volatility
make_alert(symbol, current_price, last_price, volatility, t) ==
  [symbol |-> symbol, name |-> AssetOf(symbol).name,
   current_price |-> current_price, last_price |-> last_price,
   volatility |-> volatility, timestamp |-> t,
   level |-> AssetOf(symbol).level, threshold |-> AssetOf(symbol).threshold]

\* the price rows check_volatility writes for a symbol whose alert fires
\* (the save inside the alert branch, then the save every symbol gets)
save_fired(rows, up, symbol, price, volume, t) ==
  save_price(save_price(rows, up, symbol, price, volume, t),
             up, symbol, price, volume, t)

\* mark_alert with the assignment outside the alert branch
mark_alert_always(lat, symbol, fire, t) == Put(lat, symbol, t)

\* Monitor.last_alert_time after the alert decision for one symbol
mark_alert(lat, symbol, fire, t) ==
  IF fire THEN Put(lat, symbol, t) ELSE lat

\* eval_symbol with the update of last_prices inside the threshold branch
eval_symbol_in_branch(m, events, up, saves, t, symbol, data) ==
  LET current_price == data.price
      last_price == previous_price(m.last_prices, symbol, current_price)
      volatility == calculate_volatility(current_price, last_price)
      triggered == check_threshold(symbol, volatility)
      fire == /\ triggered
              /\ ~is_in_cooldown(m.last_alert_time, events, up, t,
                                 symbol, volatility)
  IN [ last_prices |-> IF triggered
                         THEN Put(m.last_prices, symbol, current_price)
                         ELSE m.last_prices,
       last_alert_time |-> mark_alert(m.last_alert_time, symbol, fire, t),
       price_history |->
         IF fire
           THEN save_fired(m.price_history, saves, symbol, current_price,
                           data.volume_24h, t)
           ELSE save_price(m.price_history, saves, symbol, current_price,
                           data.volume_24h, t),
       alerts |->
         IF fire
           THEN Append(m.alerts, make_alert(symbol, current_price,
                                            last_price, volatility, t))
           ELSE m.alerts,
       raised |-> m.raised ]

\* eval_symbol with a save_price that raises when the store fails: the
\* symbol's evaluation ends in the except of the loop body
eval_symbol_save_raises(m, events, up, saves, t, symbol, data) ==
  LET current_price == data.price
      last_price == previous_price(m.last_prices, symbol, current_price)
      volatility == calculate_volatility(current_price, last_price)
      fire == /\ check_threshold(symbol, volatility)
              /\ ~is_in_cooldown(m.last_alert_time, events, up, t,
                                 symbol, volatility)
  IN [ last_prices |-> IF fire /\ ~saves THEN m.last_prices
                       ELSE Put(m.last_prices, symbol, current_price),
       last_alert_time |-> mark_alert(m.last_alert_time, symbol, fire, t),
       price_history |->
         IF fire
           THEN save_fired(m.price_history, saves, symbol, current_price,
                           data.volume_24h, t)
           ELSE save_price(m.price_history, saves, symbol, current_price,
                           data.volume_24h, t),
       alerts |->
         IF fire
           THEN Append(m.alerts, make_alert(symbol, current_price,
                                            last_price, volatility, t))
           ELSE m.alerts,
       raised |-> m.raised ]

\* eval_symbol that moves the last price of a symbol only when an alert
\* fires (or none is known): the change is measured from the price at the
\* last alert
eval_symbol_anchored(m, events, up, saves, t, symbol, data) ==
  LET current_price == data.price
      last_price == previous_price(m.last_prices, symbol, current_price)
      volatility == calculate_volatility(current_price, last_price)
      fire == /\ check_threshold(symbol, volatility)
              /\ ~is_in_cooldown(m.last_alert_time, events, up, t,
                                 symbol, volatility)
  IN [ last_prices |->
         IF fire \/ symbol \notin DOMAIN m.last_prices
           THEN Put(m.last_prices, symbol, current_price)
           ELSE m.last_prices,
       last_alert_time |-> mark_alert(m.last_alert_time, symbol, fire, t),
       price_history |->
         IF fire
           THEN save_fired(m.price_history, saves, symbol, current_price,
                           data.volume_24h, t)
           ELSE save_price(m.price_history, saves, symbol, current_price,
                           data.volume_24h, t),
       alerts |->
         IF fire
           THEN Append(m.alerts, make_alert(symbol, current_price,
                                            last_price, volatility, t))
           ELSE m.alerts,
       raised |-> m.raised ]

\* the body of the try of check_volatility for one (symbol, data) that
\* raises nothing; m is the monitor state with the rows of price_history and
\* the alerts collected so far, up whether the store answers the lookup of
\* is_in_cooldown, saves whether it takes the rows of save_price
eval_symbol(m, events, up, saves, t, symbol, data) ==
  LET current_price == data.price
      last_price == previous_price(m.last_prices, symbol, current_price)
      volatility == calculate_volatility(current_price, last_price)
      fire == /\ check_threshold(symbol, volatility)
              /\ ~is_in_cooldown(m.last_alert_time, events, up, t,
                                 symbol, volatility)
  IN [ last_prices |-> Put(m.last_prices, symbol, current_price),
       last_alert_time |-> mark_alert(m.last_alert_time, symbol, fire, t),
       price_history |->
         IF fire
           THEN save_fired(m.price_history, saves, symbol, current_price,
                           data.volume_24h, t)
           ELSE save_price(m.price_history, saves, symbol, current_price,
                           data.volume_24h, t),
       alerts |->
         IF fire
           THEN Append(m.alerts, make_alert(symbol, current_price,
                                            last_price, volatility, t))
           ELSE m.alerts,
       raised |-> m.raised ]

\* whether the try of check_volatility raises for a sample: data['price']
\* of a sample without a price is a KeyError, raised before anything is
\* written
sample_raises(data) == "price" \notin DOMAIN data

\* check_from with the try around the whole loop: the first exception ends
\* the call
RECURSIVE check_from_abort(_, _, _, _, _, _, _)
check_from_abort(i, m, events, up, saves, t, data) ==
  IF i > Len(Assets) THEN m
  ELSE LET symbol == Assets[i].symbol
       IN IF symbol \in DOMAIN data /\ sample_raises(data[symbol])
            THEN [m EXCEPT !.alerts = <<>>, !.raised = TRUE]
            ELSE check_from_abort(i + 1,
                   IF symbol \in DOMAIN data
                     THEN eval_symbol(m, events, up, saves, t, symbol,
                                      data[symbol])
                     ELSE m,
                   events, up, saves, t, data)

\* the for loop of check_volatility over price_data.items(), a dict filled
\* in the order of Assets; an exception of one symbol is caught by the
\* except of the loop body, printed, and the loop goes on
RECURSIVE check_from(_, _, _, _, _, _, _)
\* check_from that forgets the last price of a symbol without a sample
RECURSIVE check_from_forgetting(_, _, _, _, _, _, _)
check_from_forgetting(i, m, events, up, saves, t, data) ==
  IF i > Len(Assets) THEN m
  ELSE LET symbol == Assets[i].symbol
       IN check_from_forgetting(i + 1,
            IF symbol \in DOMAIN data /\ ~sample_raises(data[symbol])
              THEN eval_symbol(m, events, up, saves, t, symbol, data[symbol])
            ELSE IF symbol \notin DOMAIN data
              THEN [m EXCEPT !.last_prices =
                      [x \in DOMAIN m.last_prices \ {symbol} |->
                         m.last_prices[x]]]
            ELSE m,
            events, up, saves, t, data)

\* check_from in which the sample that raises has already overwritten the
\* last price of its symbol
RECURSIVE check_from_half_done(_, _, _, _, _, _, _)
check_from_half_done(i, m, events, up, saves, t, data) ==
  IF i > Len(Assets) THEN m
  ELSE LET symbol == Assets[i].symbol
       IN check_from_half_done(i + 1,
            IF symbol \in DOMAIN data /\ ~sample_raises(data[symbol])
              THEN eval_symbol(m, events, up, saves, t, symbol, data[symbol])
            ELSE IF symbol \in DOMAIN data
              THEN [m EXCEPT !.last_prices = Put(m.last_prices, symbol, 0)]
            ELSE m,
            events, up, saves, t, data)

check_from(i, m, events, up, saves, t, data) ==
  IF i > Len(Assets) THEN m
  ELSE LET symbol == Assets[i].symbol
       IN check_from(i + 1,
                     IF symbol \in DOMAIN data /\ ~sample_raises(data[symbol])
                       THEN eval_symbol(m, events, up, saves, t, symbol,
                                        data[symbol])
                       ELSE m,
                     events, up, saves, t, data)

\* Monitor.check_volatility: the monitor state after the call, with the
\* returned alerts in the field alerts (raised: an exception left the call)
check_volatility(lp, lat, rows, events, up, saves, t, data) ==
  check_from(1, [last_prices |-> lp, last_alert_time |-> lat,
                 price_history |-> rows, alerts |-> <<>>, raised |-> FALSE],
             events, up, saves, t, data)

\* ------------------------------------------------------------ the fetcher
\* the DataFrame of ticker.history(period="2d") whose last close is p:
\* the rows of the day before and of the day, with their Open and Close
two_days(p) == <<[Open |-> 50, Close |-> 50], [Open |-> 50, Close |-> p]>>

\* what the upstream of an instrument answers to one request: a ticker
\* with a last price (an exchange) or a history (yfinance), an error
\* (network error, missing symbol), or nothing at all ("hang")
Upstream(asset) ==
  (IF asset.symbol \in Flaky THEN {[kind |-> "error"]} ELSE {}) \cup
  (IF asset.symbol \in Hanging THEN {[kind |-> "hang"]} ELSE {}) \cup
  (IF asset.source = "yfinance"
     THEN {[kind |-> "history", info |-> two_days(p)] :
             p \in PricesOf(asset.symbol)}
     ELSE {[kind |-> "tick", last |-> p] : p \in PricesOf(asset.symbol)})

\* the price dict fetch_crypto_price builds from an upstream answer; every
\* exception inside the adapter is caught there and None is returned.  The
\* adapters make the library call (fetch_ticker, history) with no timeout
\* of their own: without an answer the call stays pending
price_dict(symbol, source, answer) ==
  IF answer.kind = "tick"
    THEN [kind |-> "dict", symbol |-> symbol, price |-> answer.last,
          volume_24h |-> 1, source |-> source]
  ELSE IF answer.kind = "hang" THEN [kind |-> "pending"]
  ELSE [kind |-> "none"]

\* DataFetcher.fetch_crypto_price
fetch_crypto_price(exchange_name, symbol, answer) ==
  IF exchange_name \notin exchanges THEN [kind |-> "none"]
  ELSE price_dict(symbol, exchange_name, answer)

\* (a - b) / b if b != 0 else 0, as the fraction <<numerator, denominator>>
\* with a positive denominator
relative_to(a, b) ==
  IF b = 0 THEN <<0, 1>>
  ELSE IF b < 0 THEN <<b - a, -b>>
  ELSE <<a - b, b>>

\* change_24h always taken against the day's open
change_24h_from_open(info) ==
  LET latest == info[Len(info)]
  IN relative_to(latest.Close, latest.Open)

\* change_24h in fetch_traditional_price: against the close of the day
\* before when the history has two rows, else against the day's open
change_24h(info) ==
  LET latest == info[Len(info)]
  IN IF Len(info) >= 2
       THEN relative_to(latest.Close, info[Len(info) - 1].Close)
       ELSE relative_to(latest.Close, latest.Open)

\* DataFetcher.fetch_traditional_price: an empty history raises the
\* ValueError that the except of the adapter turns into None
fetch_traditional_price(symbol, answer) ==
  IF answer.kind = "hang" THEN [kind |-> "pending"]
  ELSE IF answer.kind # "history" THEN [kind |-> "none"]
  ELSE IF Len(answer.info) < 1 THEN [kind |-> "none"]
  ELSE [kind |-> "dict", symbol |-> symbol,
        price |-> answer.info[Len(answer.info)].Close,
        change_24h |-> change_24h(answer.info),
        volume_24h |-> 1, source |-> "yfinance"]

\* DataFetcher.fetch_asset: the awaited result, or the raised ValueError
fetch_asset(asset, answer) ==
  IF asset.source \in exchanges
    THEN fetch_crypto_price(asset.source, asset.symbol, answer)
  ELSE IF asset.source = "yfinance"
    THEN fetch_traditional_price(asset.symbol, answer)
  ELSE [kind |-> "exception"]

\* asyncio.gather(*tasks) without return_exceptions: the first exception
\* of a task is raised to the caller
gather_raising(results) ==
  [raised |-> \E i \in 1..Len(results) : results[i].kind = "exception",
   results |-> results]

\* asyncio.gather(*tasks, return_exceptions=True): exceptions come back
\* as results, none is raised
gather(results) == [raised |-> FALSE, results |-> results]

\* the loop of fetch_all over zip(assets, results)
RECURSIVE collect(_, _, _)
collect(i, results, acc) ==
  IF i > Len(results) THEN acc
  ELSE collect(i + 1, results,
               IF results[i].kind = "dict"
                 THEN Put(acc, results[i].symbol, results[i])
                 ELSE acc)

\* await asyncio.gather(...): the await ends when every task has ended
all_done(results) ==
  \A i \in 1..Len(results) : results[i].kind # "pending"

\* DataFetcher.fetch_all: the returned dict, or raised when an exception
\* leaves the call; returned is FALSE when the await of gather never ends
fetch_all(assets, answers) ==
  LET tasks == [i \in 1..Len(assets) |-> fetch_asset(assets[i], answers[i])]
      g == gather(tasks)
  IN IF ~all_done(tasks)
       THEN [returned |-> FALSE, raised |-> FALSE, price_data |-> EmptyMap]
     ELSE IF g.raised
       THEN [returned |-> TRUE, raised |-> TRUE, price_data |-> EmptyMap]
     ELSE [returned |-> TRUE, raised |-> FALSE,
           price_data |-> collect(1, g.results, EmptyMap)]

\* ---------------------------------------------------------- the scheduler
\* datetime.now().time() and .date() of the clock value t (seconds)
DayLength == 86400

time_of_day(t) == t % DayLength

date_of(t) == t \div DayLength

\* config['DAILY_REPORT_TIME'], default '22:30', as strptime(..., "%H:%M")
\* reads it: seconds after midnight
DAILY_REPORT_TIME == 22 * 3600 + 30 * 60

\* the texts Brain.analyze returns in place of an analysis
FallbackTexts == {"service unavailable", "error during analysis"}

\* Brain.analyze with the exception of the model call leaving the method
analyze_raising(alert, outcome) ==
  [raised |-> outcome = "error",
   text |-> IF outcome = "ok" THEN "report"
            ELSE IF outcome = "unavailable" THEN "service unavailable"
            ELSE "error during analysis"]

\* Brain.analyze: the text of the model ("report"), or a fallback text when
\* the service is not configured (outcome "unavailable") or the call fails
\* (outcome "error": the except of analyze returns the error text); it
\* raises nothing
analyze(alert, outcome) ==
  [raised |-> FALSE,
   text |-> IF outcome = "ok" THEN "report"
            ELSE IF outcome = "unavailable" THEN "service unavailable"
            ELSE "error during analysis"]

\* self.brain.memory.log_event(alert, analysis): DatabaseManager defines
\* save_event and no log_event, so the call raises AttributeError and
\* writes nothing
log_event(rows, up, event, analysis) == [raised |-> TRUE, rows |-> rows]

\* TelegramNotifier.send_alert: a failure of bot.send_message is caught
\* and logged inside send_alert, which returns None either way
send_alert(alert, analysis, sent) ==
  [raised |-> FALSE, delivered |-> sent = "sent", logged |-> sent # "sent"]

\* the body of the try of GaiaSystem._handle_alert for one alert: analyze,
\* send_alert (which catches its own failures), log_event.  outcome is how
\* the model call of Brain.analyze went and sent what the Telegram API did;
\* notified says that send_alert was called with the analysis, delivered
\* that the message went out, failed that the body raised
handle_alert(rows, up, alert, outcome, sent) ==
  LET analysis == analyze(alert, outcome)
      sending == send_alert(alert, analysis.text, sent)
      logged == log_event(rows, up, alert, analysis.text)
  IN IF analysis.raised
       THEN [event_log |-> rows,
             record |-> [symbol |-> alert.symbol,
                         volatility |-> alert.volatility,
                         timestamp |-> alert.timestamp,
                         analysis |-> "none", notified |-> FALSE,
                         delivered |-> FALSE, failed |-> TRUE]]
     ELSE IF sending.raised
       THEN [event_log |-> rows,
             record |-> [symbol |-> alert.symbol,
                         volatility |-> alert.volatility,
                         timestamp |-> alert.timestamp,
                         analysis |-> analysis.text, notified |-> TRUE,
                         delivered |-> FALSE, failed |-> TRUE]]
       ELSE [event_log |-> logged.rows,
             record |-> [symbol |-> alert.symbol,
                         volatility |-> alert.volatility,
                         timestamp |-> alert.timestamp,
                         analysis |-> analysis.text, notified |-> TRUE,
                         delivered |-> sending.delivered,
                         failed |-> logged.raised]]

\* the except clauses with every exception re-raised
escapes_reraised(method, raised) == raised

\* _handle_alert without its except: what its body raises leaves it and is
\* caught by fetch_and_monitor
escapes_from_handler(method, raised) == raised /\ method = "_handle_alert"

\* whether an exception raised in the try of fetch_and_monitor,
\* _handle_alert or generate_daily_report leaves the method: each has an
\* `except Exception` that logs it
escapes(method, raised) == FALSE

\* report_due without the test of the date of the last report
report_due_any_cycle(ldr, t) == time_of_day(t) >= DAILY_REPORT_TIME

\* the condition of generate_daily_report: the report time has come and no
\* report went out today (ldr is self.last_daily_report, <<>> is None)
report_due(ldr, t) ==
  /\ time_of_day(t) >= DAILY_REPORT_TIME
  /\ (ldr = <<>> \/ date_of(ldr[1]) # date_of(t))

\* generate_daily_report feeding the prices it fetched to the monitor
generate_daily_report_evaluating(ldr, t, lp, lat, data) ==
  LET due == report_due(ldr, t)
  IN [last_daily_report |-> IF due THEN <<t>> ELSE ldr,
      sent |-> due,
      last_prices |->
        IF due
          THEN [x \in (DOMAIN lp) \cup (DOMAIN data) |->
                  IF x \in DOMAIN data THEN data[x].price ELSE lp[x]]
          ELSE lp,
      last_alert_time |-> lat,
      raised |-> FALSE]

\* the body of the try of GaiaSystem.generate_daily_report: when the report
\* is due, fetch_all (data is its result), Brain.generate_daily_report and
\* Notifier.send_daily_report (neither raises), then last_daily_report =
\* now.  lp and lat are the Monitor's maps, which the method does not touch
generate_daily_report(ldr, t, lp, lat, data) ==
  LET due == report_due(ldr, t)
  IN [last_daily_report |-> IF due THEN <<t>> ELSE ldr,
      sent |-> due,
      last_prices |-> lp,
      last_alert_time |-> lat,
      raised |-> FALSE]

\* a loop that starts its cycles at a fixed rate: no wait after a cycle
\* that took longer than the interval
next_cycle_fixed_rate(started, ended) ==
  IF ended - started >= MONITOR_INTERVAL THEN ended
  ELSE started + MONITOR_INTERVAL

\* main_loop: when the next cycle starts after one that started and ended
\* at the given times: await asyncio.sleep(interval) follows every cycle
next_cycle(started, ended) == ended + MONITOR_INTERVAL

\* main_loop/run/main once the loop has ended: the except and finally
\* clauses log, nothing calls DataFetcher.close
exit_record(cause) == [cause |-> cause, closed |-> FALSE]

\* ------------------------------------------------- the chunks of a report
\* the length a message may have, standing for the 4000 characters of the
\* commands, and the longest text considered
ChunkLimit == 3
MaxText == 6

\* the characters of a text: a newline, or any other character
Characters == {"n", "x"}

\* text.rfind('\n', 0, end): the 0-based index of the last newline among
\* the first end characters, or -1
rfind(text, end) ==
  LET at == {i \in 0..(end - 1) : i < Len(text) /\ text[i + 1] = "n"}
  IN IF at = {} THEN -1 ELSE CHOOSE i \in at : \A j \in at : j <= i

\* where one iteration of the while loop cuts current_chunk
split_pos(text) ==
  IF rfind(text, ChunkLimit) = -1 THEN ChunkLimit ELSE rfind(text, ChunkLimit)

\* the slices text[:pos] and text[pos:]
up_to(text, pos) == SubSeq(text, 1, pos)
from(text, pos) == SubSeq(text, pos + 1, Len(text))

\* no method has been called on its own
no_call == [op |-> "none"]

\* ------------------------------------------------------------------ state
VARIABLES
  pc,              \* where main_loop stands: "fetch", "check", "handle",
                   \* "report", "sleep", "hung" inside a fetch_all that
                   \* does not return, "stopped" when it has ended, or
                   \* "call" when methods are called one by one instead
  now,             \* the clock (time.time(), datetime.now())
  cycle,           \* iterations of main_loop started so far
  dbUp,            \* whether the SQLite store answers in this cycle
  answers,         \* what the upstreams answered in the last fetch_all
  price_data,      \* the dict returned by the last fetch_all
  loop_error,      \* fetch_and_monitor caught an exception in this cycle
  last_prices,     \* Monitor.last_prices
  last_alert_time, \* Monitor.last_alert_time
  price_history,   \* table price_history
  event_log,       \* table event_log
  alerts,          \* the list returned by the last check_volatility
  next_alert,      \* position of the for loop over alerts
  handled,         \* what _handle_alert did for each alert of this cycle
  pre,             \* the monitor, the store and the clock as they were when
                   \* check_volatility was called in this cycle
  fired,           \* for each symbol, the last alert check_volatility returned
  last_daily_report, \* GaiaSystem.last_daily_report (<<>> is None)
  phases,          \* the phases this cycle has run, in order
  cycle_start,     \* when this cycle started
  slept,           \* at the start of a cycle, when the cycle before it
                   \* started and ended (<<>> otherwise)
  exit,            \* how main_loop ended (<<>> while it runs)
  utc_offset,      \* seconds by which the host's local time is ahead of
                   \* UTC (the TZ of the process); no step of main_loop
                   \* depends on it
  call,            \* the last method called on its own, with its arguments
                   \* and what it returned (op "none" while main_loop runs)
  send_outcomes,   \* what the Telegram API may do with a message of
                   \* send_alert: "sent", and "failed" where the alerts
                   \* are handled with the API out of reach
  report,          \* the text a command is about to send in chunks, a
                   \* sequence of characters (<<>> while none is sent)
  current_chunk,   \* the part of the text not yet cut into chunks
  chunks           \* the chunks cut so far

vars == <<pc, now, cycle, dbUp, answers, price_data, loop_error, last_prices,
          last_alert_time, price_history, event_log, alerts, next_alert,
          handled, pre, fired, last_daily_report, phases, cycle_start,
          slept, exit, utc_offset, call, send_outcomes, report,
          current_chunk, chunks>>

\* an alert of an earlier run, as the store holds it
past_event(symbol, volatility, price, t) ==
  [symbol |-> symbol, current_price |-> price, volatility |-> volatility,
   level |-> AssetOf(symbol).level, timestamp |-> t]

\* the event_log tables a process may find at start: none, or rows that
\* save_event wrote before (the last BTC/USDT event moved 5%, or 4%)
PersistedLogs ==
  { <<>>,
    save_event(
      save_event(
        save_event(<<>>, TRUE,
                   past_event("BTC/USDT", <<-22, 88>>, 66, StartTime - 999),
                   "report"),
        TRUE, past_event("GC=F", <<1, 50>>, 51, StartTime - 998), "report"),
      TRUE, past_event("BTC/USDT", <<5, 100>>, 105, StartTime - 997), "report"),
    save_event(<<>>, TRUE,
               past_event("BTC/USDT", <<-4, 100>>, 96, StartTime - 999),
               "report") }

Init ==
  /\ pc = "fetch"
  /\ now = StartTime
  /\ cycle = 1
  /\ dbUp = TRUE
  /\ answers = <<>>
  /\ price_data = EmptyMap
  /\ loop_error = FALSE
  /\ last_prices = EmptyMap
  /\ last_alert_time = EmptyMap
  /\ price_history = <<>>
  /\ event_log \in PersistedLogs
  /\ alerts = <<>>
  /\ next_alert = 1
  /\ handled = <<>>
  /\ pre = [called |-> FALSE]
  /\ fired = EmptyMap
  /\ last_daily_report = <<>>
  /\ phases = <<>>
  /\ cycle_start = StartTime
  /\ slept = <<>>
  /\ exit = <<>>
  /\ utc_offset = 0
  /\ call = no_call
  /\ send_outcomes = {"sent"}
  /\ report = <<>>
  /\ current_chunk = <<>>
  /\ chunks = <<>>

\* ---------------------------------------------------------------- actions
\* the combinations of answers the upstreams may give to one fetch_all
UpstreamAnswers ==
  {a \in [1..Len(Assets) -> UNION {Upstream(Assets[i]) : i \in 1..Len(Assets)}] :
     \A i \in 1..Len(Assets) : a[i] \in Upstream(Assets[i])}

\* fetch_and_monitor, first statement: price_data = await fetch_all(assets);
\* an exception leaving it is caught by the except of fetch_and_monitor
FetchAll ==
  /\ pc = "fetch"
  /\ \E a \in UpstreamAnswers :
       LET r == fetch_all(Assets, a)
           out == escapes("fetch_and_monitor", r.raised)
       IN /\ answers' = a
          /\ price_data' = r.price_data
          /\ loop_error' = (r.raised /\ ~out)
          /\ pc' = IF ~r.returned THEN "hung"
                   ELSE IF out THEN "stopped"
                   ELSE IF r.raised THEN "report" ELSE "check"
          /\ exit' = IF out THEN exit_record("exception") ELSE exit
  /\ phases' = Append(phases, "fetch")
  /\ slept' = <<>>
  /\ UNCHANGED <<utc_offset, call, send_outcomes, report, current_chunk,
                 chunks>>
  /\ UNCHANGED <<now, cycle, dbUp, last_prices, last_alert_time,
                 price_history, event_log, alerts, next_alert, handled,
                 pre, fired, last_daily_report, cycle_start>>

\* for each symbol, its alert in a list of alerts (the last one, if any)
latest_alerts(old, list) ==
  [s \in (DOMAIN old) \cup {list[i].symbol : i \in 1..Len(list)} |->
     IF \E i \in 1..Len(list) : list[i].symbol = s
       THEN list[CHOOSE i \in 1..Len(list) :
                   /\ list[i].symbol = s
                   /\ \A k \in 1..Len(list) : list[k].symbol = s => k <= i]
       ELSE old[s]]

\* fetch_and_monitor, second statement: alerts = await check_volatility(price_data)
CheckVolatility ==
  /\ pc = "check"
  /\ LET m == check_volatility(last_prices, last_alert_time, price_history,
                               event_log, dbUp, dbUp, now, price_data)
         out == escapes("fetch_and_monitor", m.raised)
     IN /\ last_prices' = m.last_prices
        /\ last_alert_time' = m.last_alert_time
        /\ price_history' = m.price_history
        /\ alerts' = m.alerts
        /\ fired' = latest_alerts(fired, m.alerts)
        /\ loop_error' = (m.raised /\ ~out)
        /\ pc' = IF out THEN "stopped"
                 ELSE IF m.raised \/ m.alerts = <<>> THEN "report"
                 ELSE "handle"
        /\ exit' = IF out THEN exit_record("exception") ELSE exit
  /\ pre' = [called |-> TRUE, last_prices |-> last_prices,
             last_alert_time |-> last_alert_time,
             price_history |-> price_history, event_log |-> event_log,
             now |-> now, dbUp |-> dbUp, fired |-> fired]
  /\ next_alert' = 1
  /\ phases' = Append(phases, "evaluate")
  /\ UNCHANGED <<utc_offset, call, send_outcomes, report, current_chunk,
                 chunks>>
  /\ UNCHANGED <<now, cycle, dbUp, answers, price_data, event_log, handled,
                 last_daily_report, cycle_start, slept>>

\* the outcomes of the model call of Brain.analyze
AnalyzerOutcomes == {"ok", "unavailable", "error"}

\* one iteration of `for alert in alerts: await self._handle_alert(alert)`;
\* an exception leaving _handle_alert would end the for loop in the except
\* of fetch_and_monitor
HandleAlert ==
  /\ pc = "handle"
  /\ next_alert <= Len(alerts)
  /\ \E outcome \in AnalyzerOutcomes, sent \in send_outcomes :
       LET h == handle_alert(event_log, dbUp, alerts[next_alert], outcome,
                             sent)
           left == escapes("_handle_alert", h.record.failed)
           out == escapes("fetch_and_monitor", left)
       IN /\ event_log' = h.event_log
          /\ handled' = Append(handled, h.record)
          /\ loop_error' = (left /\ ~out)
          /\ pc' = IF out THEN "stopped"
                   ELSE IF left \/ next_alert + 1 > Len(alerts) THEN "report"
                   ELSE "handle"
          /\ exit' = IF out THEN exit_record("exception") ELSE exit
  /\ next_alert' = next_alert + 1
  /\ phases' = IF phases[Len(phases)] = "handle" THEN phases
               ELSE Append(phases, "handle")
  /\ UNCHANGED <<utc_offset, call, send_outcomes, report, current_chunk,
                 chunks>>
  /\ UNCHANGED <<now, cycle, dbUp, answers, price_data, last_prices,
                 last_alert_time, price_history, alerts, pre, fired,
                 last_daily_report, cycle_start, slept>>

\* main_loop, second statement: await self.generate_daily_report();
\* fetch_and_monitor has returned and its locals are gone.  The cycle ends
\* here, after the time its phases took
Report ==
  /\ pc = "report"
  /\ LET due == report_due(last_daily_report, now)
     IN \E a \in (IF due THEN UpstreamAnswers ELSE {<<>>}) :
          LET f == IF due THEN fetch_all(Assets, a)
                   ELSE [returned |-> TRUE, price_data |-> EmptyMap]
              r == generate_daily_report(last_daily_report, now, last_prices,
                                         last_alert_time, f.price_data)
              out == escapes("generate_daily_report", r.raised)
          IN IF ~f.returned
               THEN /\ pc' = "hung"
                    /\ UNCHANGED <<last_daily_report, last_prices,
                                   last_alert_time, exit>>
               ELSE /\ last_daily_report' = r.last_daily_report
                    /\ last_prices' = r.last_prices
                    /\ last_alert_time' = r.last_alert_time
                    /\ pc' = IF out THEN "stopped" ELSE "sleep"
                    /\ exit' = IF out THEN exit_record("exception") ELSE exit
  /\ \E overrun \in Overruns : now' = now + overrun
  /\ phases' = Append(phases, "report")
  /\ answers' = <<>>
  /\ price_data' = EmptyMap
  /\ loop_error' = FALSE
  /\ alerts' = <<>>
  /\ next_alert' = 1
  /\ handled' = <<>>
  /\ pre' = [called |-> FALSE]
  /\ UNCHANGED <<utc_offset, call, send_outcomes, report, current_chunk,
                 chunks>>
  /\ UNCHANGED <<cycle, dbUp, price_history, event_log, fired, cycle_start,
                 slept>>

\* main_loop: await asyncio.sleep(interval), then the next iteration; a
\* store that went down stays down
Sleep ==
  /\ pc = "sleep"
  /\ cycle < MaxCycles
  /\ now' = next_cycle(cycle_start, now)
  /\ cycle_start' = now'
  /\ slept' = <<cycle_start, now>>
  /\ dbUp' \in {dbUp, FALSE}
  /\ cycle' = cycle + 1
  /\ pc' = "fetch"
  /\ phases' = <<>>
  /\ UNCHANGED <<utc_offset, call, send_outcomes, report, current_chunk,
                 chunks>>
  /\ UNCHANGED <<answers, price_data, loop_error, last_prices,
                 last_alert_time, price_history, event_log, alerts,
                 next_alert, handled, pre, fired, last_daily_report, exit>>

\* the shutdown signal: KeyboardInterrupt ends main_loop wherever it
\* stands; the process exits and its memory is gone, the store stays
Shutdown ==
  /\ pc # "stopped"
  /\ pc' = "stopped"
  /\ exit' = exit_record("signal")
  /\ answers' = <<>>
  /\ price_data' = EmptyMap
  /\ loop_error' = FALSE
  /\ alerts' = <<>>
  /\ next_alert' = 1
  /\ handled' = <<>>
  /\ pre' = [called |-> FALSE]
  /\ phases' = <<>>
  /\ slept' = <<>>
  /\ last_prices' = EmptyMap
  /\ last_alert_time' = EmptyMap
  /\ fired' = EmptyMap
  /\ last_daily_report' = <<>>
  /\ cycle_start' = now
  /\ UNCHANGED <<utc_offset, call, send_outcomes, report, current_chunk,
                 chunks>>
  /\ UNCHANGED <<now, cycle, dbUp, price_history, event_log>>

Next ==
  FetchAll \/ CheckVolatility \/ HandleAlert \/ Report \/ Sleep \/ Shutdown

Spec == Init /\ [][Next]_vars

\* ------------------------------------- check_volatility on arbitrary inputs
\* the prices a sample or Monitor.last_prices may hold for BTC/USDT when
\* check_volatility is called on its own: PriceSample.price is any float
EvalPrices == {-2, -1, 0, 1, 2, 100, 110}

\* the choices for one key of a dict: missing (<<>>), or a value of S
Optional(S) == {<<>>} \cup {<<x>> : x \in S}

\* a dict over the monitored symbols from the choice made for each key
dict_of(btc, gold) ==
  [s \in (IF btc = <<>> THEN {} ELSE {"BTC/USDT"})
         \cup (IF gold = <<>> THEN {} ELSE {"GC=F"}) |->
     IF s = "BTC/USDT" THEN btc[1] ELSE gold[1]]

\* a sample as the adapters build it, and one that lacks its price
sample(symbol, price) ==
  [kind |-> "dict", symbol |-> symbol, price |-> price, volume_24h |-> 1,
   source |-> AssetOf(symbol).source]

sample_without_price(symbol) ==
  [kind |-> "dict", symbol |-> symbol, volume_24h |-> 1,
   source |-> AssetOf(symbol).source]

\* the state in which check_volatility is about to be called, for every
\* combination of the Monitor's maps, the store and the samples map
EvalInit ==
  /\ pc = "check"
  /\ now = StartTime
  /\ cycle = 1
  /\ dbUp \in BOOLEAN
  /\ answers = <<>>
  /\ \E btc \in Optional({sample_without_price("BTC/USDT")}
                          \cup {sample("BTC/USDT", p) : p \in EvalPrices}),
        gold \in Optional({sample_without_price("GC=F")}
                          \cup {sample("GC=F", p) : p \in PricesOf("GC=F")}) :
       price_data = dict_of(btc, gold)
  /\ loop_error = FALSE
  /\ \E btc \in Optional(EvalPrices), gold \in Optional({50}) :
       last_prices = dict_of(btc, gold)
  /\ \E btc \in Optional({StartTime - MONITOR_INTERVAL,
                           StartTime - cooldown_period}),
        gold \in Optional({StartTime - MONITOR_INTERVAL}) :
       last_alert_time = dict_of(btc, gold)
  /\ price_history = <<>>
  /\ event_log \in PersistedLogs
  /\ alerts = <<>>
  /\ next_alert = 1
  /\ handled = <<>>
  /\ pre = [called |-> FALSE]
  /\ fired = EmptyMap
  /\ last_daily_report = <<>>
  /\ phases = <<"fetch">>
  /\ cycle_start = StartTime
  /\ slept = <<>>
  /\ exit = <<>>
  /\ utc_offset = 0
  /\ call = no_call
  /\ send_outcomes = {"sent"}
  /\ report = <<>>
  /\ current_chunk = <<>>
  /\ chunks = <<>>

EvalNext == CheckVolatility

EvalSpec == EvalInit /\ [][EvalNext]_vars

\* ------------------------------------------------- vocabulary of the claims
\* ------------------------------------- the store's methods called one by one
\* how many rows the calls of save_price may add, how often the clock
\* advances between calls, and by how much
MaxRows == 2
MaxTicks == 2
TickLength == 10 * HourLength

\* the hosts' time zones: UTC-8, UTC and UTC+8
UtcOffsets == {-8 * HourLength, 0, 8 * HourLength}

\* the arguments of the calls
StoreSymbols == {"BTC/USDT", "GC=F"}
WindowHours == {24}
WindowDays == {1}
QueryVolatilities == {<<5, 100>>, <<-9, 100>>}

\* save_event, once for each event of a sequence
RECURSIVE save_events(_, _)
save_events(rows, events) ==
  IF events = <<>> THEN rows
  ELSE save_events(save_event(rows, TRUE, Head(events), "report"),
                   Tail(events))

\* the event_log tables the calls may find: none; events of two symbols
\* saved out of their order in time; more BTC/USDT events of the last
\* hours than one query returns
StoredLogs ==
  { <<>>,
    save_events(<<>>,
      << past_event("BTC/USDT", <<5, 100>>, 105, StartTime - 10 * HourLength),
         past_event("GC=F", <<2, 100>>, 51, StartTime - HourLength),
         past_event("BTC/USDT", <<-6, 100>>, 94, StartTime - 20 * HourLength) >>),
    save_events(<<>>,
      << past_event("BTC/USDT", <<5, 100>>, 105, StartTime - 3 * HourLength),
         past_event("BTC/USDT", <<-6, 100>>, 94, StartTime - 7 * HourLength),
         past_event("BTC/USDT", <<6, 100>>, 106, StartTime - 1 * HourLength),
         past_event("BTC/USDT", <<3, 100>>, 103, StartTime - 2 * HourLength),
         past_event("BTC/USDT", <<8, 100>>, 108, StartTime - 5 * HourLength),
         past_event("BTC/USDT", <<-5, 100>>, 95, StartTime - 6 * HourLength),
         past_event("GC=F", <<9, 100>>, 54, StartTime - 4 * HourLength),
         past_event("BTC/USDT", <<7, 100>>, 107, StartTime - 8 * HourLength),
         past_event("BTC/USDT", <<10, 100>>, 110, StartTime - 9 * HourLength) >>) }

\* a DatabaseManager over a database file of an earlier run, on a host in
\* one of the time zones
StoreInit ==
  /\ pc = "call"
  /\ now = StartTime
  /\ cycle = 0
  /\ dbUp \in BOOLEAN
  /\ answers = <<>>
  /\ price_data = EmptyMap
  /\ loop_error = FALSE
  /\ last_prices = EmptyMap
  /\ last_alert_time = EmptyMap
  /\ price_history = <<>>
  /\ event_log \in StoredLogs
  /\ alerts = <<>>
  /\ next_alert = 1
  /\ handled = <<>>
  /\ pre = [called |-> FALSE]
  /\ fired = EmptyMap
  /\ last_daily_report = <<>>
  /\ phases = <<>>
  /\ cycle_start = StartTime
  /\ slept = <<>>
  /\ exit = <<>>
  /\ utc_offset \in UtcOffsets
  /\ call = no_call
  /\ send_outcomes = {"sent"}
  /\ report = <<>>
  /\ current_chunk = <<>>
  /\ chunks = <<>>

\* what no call of a store method changes
process_state == <<pc, cycle, answers, price_data, loop_error, last_prices,
                   last_alert_time, alerts, next_alert, handled, pre, fired,
                   last_daily_report, phases, cycle_start, slept, exit,
                   utc_offset, send_outcomes, report, current_chunk,
                   chunks>>

\* db.save_price(symbol, price, volume)
SavePrice ==
  /\ pc = "call"
  /\ Len(price_history) < MaxRows
  /\ \E symbol \in StoreSymbols :
       LET r == save_price_call(price_history, dbUp, symbol, 100, 1, now)
       IN /\ price_history' = r.rows
          /\ call' = [op |-> "save_price", symbol |-> symbol,
                      price |-> 100, volume |-> 1, up |-> dbUp,
                      before |-> price_history, raised |-> r.raised,
                      logged |-> r.logged]
  /\ UNCHANGED <<now, dbUp, event_log>>
  /\ UNCHANGED process_state

\* db.get_price_history(symbol, hours)
GetPriceHistory ==
  /\ pc = "call"
  /\ \E symbol \in StoreSymbols, hours \in WindowHours :
       \E r \in get_price_history(price_history, dbUp, utc_offset, now,
                                  symbol, hours) :
         call' = [op |-> "get_price_history", symbol |-> symbol,
                  hours |-> hours, up |-> dbUp, result |-> r]
  /\ UNCHANGED <<now, dbUp, price_history, event_log>>
  /\ UNCHANGED process_state

\* db.get_last_alert(symbol)
GetLastAlert ==
  /\ pc = "call"
  /\ \E symbol \in StoreSymbols :
       call' = [op |-> "get_last_alert", symbol |-> symbol, up |-> dbUp,
                result |-> get_last_alert(event_log, dbUp, symbol)]
  /\ UNCHANGED <<now, dbUp, price_history, event_log>>
  /\ UNCHANGED process_state

\* db.get_similar_events(symbol, volatility, days)
GetSimilarEvents ==
  /\ pc = "call"
  /\ \E symbol \in StoreSymbols, v \in QueryVolatilities, days \in WindowDays :
       \E r \in get_similar_events(event_log, dbUp, utc_offset, now,
                                   symbol, v, days) :
         call' = [op |-> "get_similar_events", symbol |-> symbol,
                  volatility |-> v, days |-> days, up |-> dbUp, result |-> r]
  /\ UNCHANGED <<now, dbUp, price_history, event_log>>
  /\ UNCHANGED process_state

\* db.cleanup_old_data(days)
CleanupOldData ==
  /\ pc = "call"
  /\ \E days \in WindowDays :
       LET r == cleanup_old_data(price_history, event_log, dbUp, utc_offset,
                                 now, days)
       IN /\ price_history' = r.price_history
          /\ event_log' = r.event_log
          /\ call' = [op |-> "cleanup_old_data", days |-> days, up |-> dbUp,
                      prices |-> price_history, events |-> event_log,
                      raised |-> r.raised, logged |-> r.logged]
  /\ UNCHANGED <<now, dbUp>>
  /\ UNCHANGED process_state

\* time passes between two calls; the store may fail or recover meanwhile
Elapse ==
  /\ pc = "call"
  /\ now < StartTime + MaxTicks * TickLength
  /\ now' = now + TickLength
  /\ dbUp' \in BOOLEAN
  /\ call' = no_call
  /\ UNCHANGED <<price_history, event_log>>
  /\ UNCHANGED process_state

StoreNext ==
  \/ SavePrice
  \/ GetPriceHistory
  \/ GetLastAlert
  \/ GetSimilarEvents
  \/ CleanupOldData
  \/ Elapse

StoreSpec == StoreInit /\ [][StoreNext]_vars

\* ------------------------------------ fetch_traditional_price called alone
\* the Open and Close values a row of the history may hold
Quotes == {0, 49, 50, 51}

\* the histories ticker.history(period="2d") may return: no row, the row
\* of the day, or the rows of the day before and of the day
Histories ==
  LET Rows == [Open : Quotes, Close : Quotes]
  IN {<<>>} \cup {<<r>> : r \in Rows} \cup {<<q, r>> : q \in Rows, r \in Rows}

\* what yfinance may answer: a history, or an exception
HistoryAnswers ==
  {[kind |-> "error"]} \cup {[kind |-> "history", info |-> h] : h \in Histories}

\* the state in which the methods of the fetcher are called one by one
FetchInit ==
  /\ pc = "call"
  /\ now = StartTime
  /\ cycle = 0
  /\ dbUp = TRUE
  /\ answers = <<>>
  /\ price_data = EmptyMap
  /\ loop_error = FALSE
  /\ last_prices = EmptyMap
  /\ last_alert_time = EmptyMap
  /\ price_history = <<>>
  /\ event_log = <<>>
  /\ alerts = <<>>
  /\ next_alert = 1
  /\ handled = <<>>
  /\ pre = [called |-> FALSE]
  /\ fired = EmptyMap
  /\ last_daily_report = <<>>
  /\ phases = <<>>
  /\ cycle_start = StartTime
  /\ slept = <<>>
  /\ exit = <<>>
  /\ utc_offset = 0
  /\ call = no_call
  /\ send_outcomes = {"sent"}
  /\ report = <<>>
  /\ current_chunk = <<>>
  /\ chunks = <<>>

\* fetcher.fetch_traditional_price(symbol)
FetchTraditionalPrice ==
  /\ pc = "call"
  /\ \E asset \in {Assets[i] : i \in 1..Len(Assets)},
        answer \in HistoryAnswers :
       /\ asset.source = "yfinance"
       /\ call' = [op |-> "fetch_traditional_price", symbol |-> asset.symbol,
                   answer |-> answer,
                   result |-> fetch_traditional_price(asset.symbol, answer)]
  /\ UNCHANGED <<now, dbUp, price_history, event_log>>
  /\ UNCHANGED process_state

FetchNext == FetchTraditionalPrice

FetchSpec == FetchInit /\ [][FetchNext]_vars

\* ------------------------------------ the alerts of one cycle being handled
\* the lists check_volatility may return in one cycle: at most one alert
\* for each symbol, in the order of Assets
AlertLists ==
  LET btc == {make_alert("BTC/USDT", 110, 100, <<10, 100>>, StartTime),
              make_alert("BTC/USDT", 100, 110, <<-10, 110>>, StartTime)}
      gold == make_alert("GC=F", 51, 50, <<1, 50>>, StartTime)
  IN {<<a>> : a \in btc} \cup {<<gold>>} \cup {<<a, gold>> : a \in btc}

\* fetch_and_monitor at `for alert in alerts`, with the Telegram API
\* failing or not for each message
HandleInit ==
  /\ pc = "handle"
  /\ now = StartTime
  /\ cycle = 1
  /\ dbUp \in BOOLEAN
  /\ answers = <<>>
  /\ price_data = EmptyMap
  /\ loop_error = FALSE
  /\ last_prices = EmptyMap
  /\ last_alert_time = EmptyMap
  /\ price_history = <<>>
  /\ event_log = <<>>
  /\ alerts \in AlertLists
  /\ next_alert = 1
  /\ handled = <<>>
  /\ pre = [called |-> FALSE]
  /\ fired = EmptyMap
  /\ last_daily_report = <<>>
  /\ phases = <<"fetch", "evaluate">>
  /\ cycle_start = StartTime
  /\ slept = <<>>
  /\ exit = <<>>
  /\ utc_offset = 0
  /\ call = no_call
  /\ send_outcomes = {"sent", "failed"}
  /\ report = <<>>
  /\ current_chunk = <<>>
  /\ chunks = <<>>

HandleNext == HandleAlert

HandleSpec == HandleInit /\ [][HandleNext]_vars

\* --------------------------- check_volatility called on sample after sample
\* the prices BTC/USDT may take from one sample to the next: steps of about
\* 4% (below its threshold of 5%) and steps of 8% and more
DriftPrices == {96, 100, 104, 108}

\* a fresh Monitor over an empty store, about to be given its first sample
DriftInit ==
  /\ pc = "check"
  /\ now = StartTime
  /\ cycle = 1
  /\ dbUp = TRUE
  /\ answers = <<>>
  /\ \E p \in DriftPrices :
       price_data = dict_of(<<sample("BTC/USDT", p)>>, <<>>)
  /\ loop_error = FALSE
  /\ last_prices = EmptyMap
  /\ last_alert_time = EmptyMap
  /\ price_history = <<>>
  /\ event_log = <<>>
  /\ alerts = <<>>
  /\ next_alert = 1
  /\ handled = <<>>
  /\ pre = [called |-> FALSE]
  /\ fired = EmptyMap
  /\ last_daily_report = <<>>
  /\ phases = <<"fetch">>
  /\ cycle_start = StartTime
  /\ slept = <<>>
  /\ exit = <<>>
  /\ utc_offset = 0
  /\ call = no_call
  /\ send_outcomes = {"sent"}
  /\ report = <<>>
  /\ current_chunk = <<>>
  /\ chunks = <<>>

\* the caller comes back one interval later with the next sample
NextSample ==
  /\ pc \in {"handle", "report"}
  /\ cycle < MaxCycles
  /\ \E p \in DriftPrices :
       price_data' = dict_of(<<sample("BTC/USDT", p)>>, <<>>)
  /\ pc' = "check"
  /\ now' = now + MONITOR_INTERVAL
  /\ cycle' = cycle + 1
  /\ cycle_start' = now'
  /\ phases' = <<"fetch">>
  /\ UNCHANGED <<dbUp, answers, loop_error, last_prices, last_alert_time,
                 price_history, event_log, alerts, next_alert, handled, pre,
                 fired, last_daily_report, slept, exit, utc_offset, call,
                 send_outcomes, report, current_chunk, chunks>>

DriftNext == CheckVolatility \/ NextSample

DriftSpec == DriftInit /\ [][DriftNext]_vars

\* ------------------------------------------ a command sending its report
\* the texts of at most n characters
RECURSIVE TextsUpTo(_)
TextsUpTo(n) ==
  IF n = 0 THEN {<<>>}
  ELSE LET shorter == TextsUpTo(n - 1)
       IN shorter \cup {Append(t, c) : t \in shorter, c \in Characters}

\* how many chunks the loop is followed for
MaxChunks == MaxText + 2

\* a command has built its report and starts to cut it
ChunkInit ==
  /\ pc = "chunk"
  /\ now = StartTime
  /\ cycle = 0
  /\ dbUp = TRUE
  /\ answers = <<>>
  /\ price_data = EmptyMap
  /\ loop_error = FALSE
  /\ last_prices = EmptyMap
  /\ last_alert_time = EmptyMap
  /\ price_history = <<>>
  /\ event_log = <<>>
  /\ alerts = <<>>
  /\ next_alert = 1
  /\ handled = <<>>
  /\ pre = [called |-> FALSE]
  /\ fired = EmptyMap
  /\ last_daily_report = <<>>
  /\ phases = <<>>
  /\ cycle_start = StartTime
  /\ slept = <<>>
  /\ exit = <<>>
  /\ utc_offset = 0
  /\ call = no_call
  /\ send_outcomes = {"sent"}
  /\ report \in TextsUpTo(MaxText)
  /\ current_chunk = report
  /\ chunks = <<>>

\* one iteration of `while len(current_chunk) > 4000`
SplitChunk ==
  /\ pc = "chunk"
  /\ Len(current_chunk) > ChunkLimit
  /\ Len(chunks) < MaxChunks
  /\ chunks' = Append(chunks, up_to(current_chunk, split_pos(current_chunk)))
  /\ current_chunk' = from(current_chunk, split_pos(current_chunk))
  /\ UNCHANGED <<now, dbUp, price_history, event_log, call, report>>
  /\ UNCHANGED <<pc, cycle, answers, price_data, loop_error, last_prices,
                 last_alert_time, alerts, next_alert, handled, pre, fired,
                 last_daily_report, phases, cycle_start, slept, exit,
                 utc_offset, send_outcomes>>

\* the loop ends: chunks.append(current_chunk), and the chunks are sent
LastChunk ==
  /\ pc = "chunk"
  /\ Len(current_chunk) <= ChunkLimit
  /\ chunks' = Append(chunks, current_chunk)
  /\ pc' = "send"
  /\ UNCHANGED <<now, dbUp, price_history, event_log, call, report,
                 current_chunk>>
  /\ UNCHANGED <<cycle, answers, price_data, loop_error, last_prices,
                 last_alert_time, alerts, next_alert, handled, pre, fired,
                 last_daily_report, phases, cycle_start, slept, exit,
                 utc_offset, send_outcomes>>

ChunkNext == SplitChunk \/ LastChunk

ChunkSpec == ChunkInit /\ [][ChunkNext]_vars

\* ------------------------------- reset_cooldown, then the next evaluation
\* monitor.reset_cooldown(symbol), called once before check_volatility
ResetCooldown ==
  /\ pc = "check"
  /\ call = no_call
  /\ \E symbol \in Symbols :
       /\ last_alert_time' = reset_cooldown(last_alert_time, symbol)
       /\ call' = [op |-> "reset_cooldown", symbol |-> symbol,
                   last_alert_time |-> last_alert_time,
                   last_prices |-> last_prices,
                   price_history |-> price_history,
                   event_log |-> event_log]
  /\ UNCHANGED <<pc, now, cycle, dbUp, answers, price_data, loop_error,
                 last_prices, price_history, event_log, alerts, next_alert,
                 handled, pre, fired, last_daily_report, phases, cycle_start,
                 slept, exit, utc_offset, send_outcomes, report,
                 current_chunk, chunks>>

ResetNext == ResetCooldown \/ CheckVolatility

ResetSpec == EvalInit /\ [][ResetNext]_vars

\* the symbols of the samples map passed to check_volatility in this cycle
Sampled == IF pre.called THEN DOMAIN price_data ELSE {}

\* the price the sample of s is compared with, and the signed change
\* (current - previous) / previous as the fraction <<numerator, denominator>>
Previous(s) ==
  IF s \in DOMAIN pre.last_prices THEN pre.last_prices[s] ELSE price_data[s].price

Change(s) ==
  IF Previous(s) = 0 THEN <<0, 1>>
  ELSE IF Previous(s) < 0
    THEN <<Previous(s) - price_data[s].price, -Previous(s)>>
  ELSE <<price_data[s].price - Previous(s), Previous(s)>>

\* |v| >= k * |w| for fractions v, w
Reaches(v, k, w) == AbsI(v[1]) * w[2] >= k * AbsI(w[1]) * v[2]

Instrument(s) == CHOOSE i \in 1..Len(Assets) : Assets[i].symbol = s

\* |volatility| >= the instrument's threshold
Triggered(s) == Reaches(Change(s), 1, Assets[Instrument(s)].threshold)

\* the rows of a table for one symbol, and its most recent rows
RowsOf(rows, s) == {i \in 1..Len(rows) : rows[i].symbol = s}

Newest(rows, s) ==
  {i \in RowsOf(rows, s) :
     \A k \in RowsOf(rows, s) : rows[k].timestamp <= rows[i].timestamp}

\* the alerts for s in the list check_volatility returned
AlertsFor(s) == {i \in 1..Len(alerts) : alerts[i].symbol = s}

\* inside the cooldown window at the time of the call
InWindow(s) ==
  /\ s \in DOMAIN pre.last_alert_time
  /\ pre.now - pre.last_alert_time[s] < cooldown_period

\* the event log held a most recent entry for s whose volatility the
\* change of s does not reach twice
BelowDouble(s) ==
  /\ Newest(pre.event_log, s) # {}
  /\ \A i \in Newest(pre.event_log, s) :
       ~Reaches(Change(s), 2, pre.event_log[i].volatility)

\* the event log held a most recent entry for s whose volatility the
\* change of s reaches twice
AtLeastDouble(s) ==
  /\ Newest(pre.event_log, s) # {}
  /\ \A i \in Newest(pre.event_log, s) :
       Reaches(Change(s), 2, pre.event_log[i].volatility)

\* --------------------------------------------------------------------- C1
\* C1: a triggered sample produces no alert when lastAlertTime[symbol]
\* exists, now - lastAlertTime[symbol] < cooldownPeriod, the lookup of the
\* event log (the store answering) returns a most recent entry for the
\* symbol, and |volatility| is below twice that entry's |volatility|.
C1_CooldownSuppresses ==
  \A s \in Sampled :
    (Triggered(s) /\ InWindow(s) /\ pre.dbUp /\ BelowDouble(s))
      => AlertsFor(s) = {}

C1_Witness ==
  \E s \in Sampled :
    /\ Triggered(s) /\ InWindow(s) /\ pre.dbUp /\ BelowDouble(s)
    /\ AlertsFor(s) = {}

\* --------------------------------------------------------------------- C2
\* C2: over the cycles of the running system (fetch_all, check_volatility,
\* _handle_alert for each alert), an alert for a symbol that follows the
\* symbol's previous alert by less than cooldownPeriod has a |volatility|
\* of at least twice the previous alert's |volatility|; stated for the
\* cycles in which the store answers.
C2_OneAlertPerWindow ==
  \A s \in Sampled :
    \A i \in AlertsFor(s) :
      (pre.dbUp /\ s \in DOMAIN pre.fired
       /\ alerts[i].timestamp - pre.fired[s].timestamp < cooldown_period)
      => Reaches(alerts[i].volatility, 2, pre.fired[s].volatility)

\* --------------------------------------------------------------------- C3
\* C3: after _handle_alert has run for an alert on symbol s (analyzer,
\* notifier, then the event log), the most recent event log entry of s
\* carries that alert's volatility; stated for the cycles in which the
\* store answers.
C3_HandlerLogsEvent ==
  \A i \in 1..Len(handled) :
    dbUp =>
      /\ Newest(event_log, handled[i].symbol) # {}
      /\ \A k \in Newest(event_log, handled[i].symbol) :
           /\ event_log[k].volatility = handled[i].volatility
           /\ event_log[k].timestamp = handled[i].timestamp

\* --------------------------------------------------------------------- C4
\* C4: a triggered sample whose |volatility| is at least twice (equality
\* included) the |volatility| of the symbol's most recent event log entry
\* produces an alert, however little time has passed since
\* lastAlertTime[symbol].
C4_EscalationFires ==
  \A s \in Sampled :
    (Triggered(s) /\ AtLeastDouble(s)) => AlertsFor(s) # {}

C4_Witness ==
  \E s \in Sampled :
    /\ Triggered(s) /\ AtLeastDouble(s) /\ InWindow(s) /\ pre.dbUp
    /\ \E i \in Newest(pre.event_log, s) :
         AbsI(Change(s)[1]) * pre.event_log[i].volatility[2]
           = 2 * AbsI(pre.event_log[i].volatility[1]) * Change(s)[2]
    /\ AlertsFor(s) # {}

\* --------------------------------------------------------------------- C5
\* C5: for a symbol with no entry in lastPrice, the sample passed to
\* check_volatility yields volatility 0 and no alert, for every instrument.
C5_FirstSampleSilent ==
  \A s \in Sampled :
    s \notin DOMAIN pre.last_prices =>
      /\ AlertsFor(s) = {}
      /\ calculate_volatility(
           price_data[s].price,
           previous_price(pre.last_prices, s, price_data[s].price))[1] = 0

C5_Witness ==
  \E s \in Sampled, u \in Sampled :
    /\ s # u
    /\ s \notin DOMAIN pre.last_prices
    /\ u \in DOMAIN pre.last_prices
    /\ AlertsFor(s) = {}
    /\ AlertsFor(u) # {}

\* --------------------------------------------------------------------- C6
\* C6: after check_volatility, lastPrice[symbol] equals the sample's price
\* for every symbol of the samples map, whether or not an alert fired.
C6_LastPriceFollowsSample ==
  \A s \in Sampled :
    s \in DOMAIN last_prices /\ last_prices[s] = price_data[s].price

C6_Witness ==
  \E s \in Sampled, u \in Sampled :
    /\ AlertsFor(s) # {}
    /\ AlertsFor(u) = {}
    /\ u \in DOMAIN pre.last_prices
    /\ pre.last_prices[u] # price_data[u].price
    /\ last_prices[s] = price_data[s].price
    /\ last_prices[u] = price_data[u].price

\* --------------------------------------------------------------------- C7
\* C7: one call of check_volatility adds exactly one price_history row for
\* every symbol of its samples map, alert or no alert (the store answering).
C7_OneRowPerSample ==
  \A s \in Sampled :
    pre.dbUp =>
      Cardinality(RowsOf(price_history, s))
        = Cardinality(RowsOf(pre.price_history, s)) + 1

\* --------------------------------------------------------------------- C8
\* C8: check_volatility sets lastAlertTime[symbol] to the current time if
\* and only if it returns an alert for the symbol; otherwise the entry is
\* as before the call.
C8_AlertTimeIffAlert ==
  pre.called =>
    \A s \in Symbols :
      IF AlertsFor(s) # {}
        THEN s \in DOMAIN last_alert_time /\ last_alert_time[s] = pre.now
        ELSE /\ (s \in DOMAIN last_alert_time) = (s \in DOMAIN pre.last_alert_time)
             /\ s \in DOMAIN last_alert_time
                  => last_alert_time[s] = pre.last_alert_time[s]

C8_Witness ==
  \E s \in Sampled, u \in Sampled :
    /\ AlertsFor(s) # {} /\ last_alert_time[s] = pre.now
    /\ Triggered(u) /\ AlertsFor(u) = {}
    /\ last_alert_time[u] = pre.last_alert_time[u]
    /\ last_alert_time[u] < pre.now

\* --------------------------------------------------------------------- C9
\* C9: with lastAlertTime[symbol] absent, a triggered sample produces an
\* alert even when the event log holds a recent entry for the symbol whose
\* volatility the sample does not reach twice.
C9_NoAlertTimeNoCooldown ==
  \A s \in Sampled :
    (Triggered(s) /\ s \notin DOMAIN pre.last_alert_time) => AlertsFor(s) # {}

C9_Witness ==
  \E s \in Sampled :
    /\ Triggered(s) /\ s \notin DOMAIN pre.last_alert_time
    /\ pre.dbUp /\ BelowDouble(s)
    /\ \A i \in Newest(pre.event_log, s) :
         pre.now - pre.event_log[i].timestamp < cooldown_period
    /\ AlertsFor(s) # {}

\* -------------------------------------------------------------------- C10
\* the last price an upstream answer carries
Quoted(answer) ==
  IF answer.kind = "tick" THEN answer.last
  ELSE answer.info[Len(answer.info)].Close

\* C10: fetch_all over N instruments of which M fail (the adapter returns
\* nothing or the source is unsupported) returns a dict with exactly N - M
\* entries, keyed by the symbols of the instruments that succeeded, and
\* raises nothing (stated for the calls that return).
Failing ==
  {i \in 1..Len(answers) :
     \/ Assets[i].source \notin exchanges \cup {"yfinance"}
     \/ answers[i].kind = "error"}

C10_FetchAllPartial ==
  (answers # <<>> /\ pc # "hung") =>
    /\ ~loop_error
    /\ pc # "fetch"
    /\ Cardinality(DOMAIN price_data) = Len(Assets) - Cardinality(Failing)
    /\ DOMAIN price_data = {Assets[i].symbol : i \in (1..Len(Assets)) \ Failing}
    /\ \A i \in (1..Len(Assets)) \ Failing :
         price_data[Assets[i].symbol].price = Quoted(answers[i])

C10_Witness ==
  /\ answers # <<>>
  /\ \E j, k \in Failing :
       /\ Assets[j].source \in exchanges /\ answers[j].kind = "error"
       /\ Assets[k].source \notin exchanges \cup {"yfinance"}
  /\ Cardinality(DOMAIN price_data) = 1
  /\ ~loop_error

\* -------------------------------------------------------------------- C11
\* C11: when the evaluation of one symbol raises inside check_volatility (a
\* sample without a price), the call still returns normally and every other
\* symbol of the samples map is evaluated: its last price follows its sample
\* and its alert is returned exactly when its change reaches the threshold
\* outside the cooldown.
WellFormed == {s \in Sampled : "price" \in DOMAIN price_data[s]}

C11_SymbolFailureIsLocal ==
  (pre.called /\ Sampled # WellFormed) =>
    /\ ~loop_error
    /\ exit = <<>>
    /\ pc \in {"handle", "report"}
    /\ \A s \in WellFormed :
         /\ s \in DOMAIN last_prices
         /\ last_prices[s] = price_data[s].price
         /\ (AlertsFor(s) # {}) =
              (/\ Triggered(s)
               /\ ~is_in_cooldown(pre.last_alert_time, pre.event_log,
                                  pre.dbUp, pre.now, s, Change(s)))

C11_Witness ==
  /\ pre.called
  /\ \E s \in Sampled \ WellFormed, u \in WellFormed :
       /\ Instrument(s) < Instrument(u)
       /\ AlertsFor(u) # {}
       /\ last_prices[u] = price_data[u].price
  /\ pc = "handle"

\* -------------------------------------------------------------------- C12
\* C12: a triggered symbol for which check_volatility performs the lookup of
\* the last alert (lastAlertTime[symbol] is set) while the store is
\* unavailable is skipped: no alert is returned for it.
C12_LookupOutageSkips ==
  \A s \in Sampled :
    (Triggered(s) /\ s \in DOMAIN pre.last_alert_time /\ ~pre.dbUp)
      => AlertsFor(s) = {}

\* -------------------------------------------------------------------- C13
\* C13: the alerts check_volatility returns and the lastPrice and
\* lastAlertTime maps it leaves are those of the same call with every
\* save_price attempt succeeding, and those of the same call with every
\* save_price attempt failing.
C13_SaveOutcomeIrrelevant ==
  pre.called =>
    \A saves \in BOOLEAN :
      LET m == check_volatility(pre.last_prices, pre.last_alert_time,
                                pre.price_history, pre.event_log, pre.dbUp,
                                saves, pre.now, price_data)
      IN /\ m.alerts = alerts
         /\ m.last_prices = last_prices
         /\ m.last_alert_time = last_alert_time

C13_Witness ==
  /\ pre.called
  /\ alerts # <<>>
  /\ Len(price_history) > Len(pre.price_history) + Len(alerts)
  /\ LET m == check_volatility(pre.last_prices, pre.last_alert_time,
                               pre.price_history, pre.event_log, pre.dbUp,
                               FALSE, pre.now, price_data)
     IN /\ m.price_history = pre.price_history
        /\ m.alerts = alerts
        /\ m.last_prices = last_prices

\* -------------------------------------------------------------------- C14
\* the place of a phase in a cycle
Rank(phase) ==
  IF phase = "fetch" THEN 1
  ELSE IF phase = "evaluate" THEN 2
  ELSE IF phase = "handle" THEN 3
  ELSE 4

\* the phases of the running cycle came in the order fetch, evaluate, alert
\* handling, daily report, each at most once, and the cycle began after the
\* cycle before it had ended
PhasesInOrder ==
  /\ \A i, j \in 1..Len(phases) : i < j => Rank(phases[i]) < Rank(phases[j])
  /\ phases # <<>> => phases[1] = "fetch"
  /\ (\E i \in 1..Len(phases) : phases[i] = "handle")
       => \E i \in 1..Len(phases) : phases[i] = "evaluate"
  /\ pc = "check" => phases = <<"fetch">>
  /\ pc = "handle" => phases[Len(phases)] \in {"evaluate", "handle"}
  /\ pc = "sleep" => phases[Len(phases)] = "report"
  /\ slept # <<>> => (slept[1] <= slept[2] /\ slept[2] <= now)

\* C14 as claimed: the phases run in order without overlap, and the cycle
\* after one that took longer than the poll interval starts at the moment
\* that cycle ended.
C14_OverrunStartsAtOnce ==
  /\ PhasesInOrder
  /\ (slept # <<>> /\ slept[2] - slept[1] > MONITOR_INTERVAL)
       => now = slept[2]

\* C14 as amended: the phases run in order without overlap, and every cycle
\* starts one poll interval after the cycle before it ended, however long
\* that cycle took.
C14_IntervalAfterEveryCycle ==
  /\ PhasesInOrder
  /\ slept # <<>> => now = slept[2] + MONITOR_INTERVAL

C14_Witness ==
  /\ pc = "fetch"
  /\ slept # <<>>
  /\ slept[2] - slept[1] > MONITOR_INTERVAL
  /\ now = slept[2] + MONITOR_INTERVAL
  /\ cycle = 3

\* -------------------------------------------------------------------- C15
\* C15: the loop ends only on the shutdown signal, never on an exception of
\* a phase: after an alert handler has raised, the loop stands at the next
\* alert or at the daily-report phase, a cycle that stands at its
\* daily-report phase can run it, and a cycle that has reached its sleep can
\* start the next cycle.
C15_LoopSurvivesFailures ==
  /\ (pc = "stopped") = (exit # <<>>)
  /\ exit # <<>> => exit.cause = "signal"
  /\ \A i \in 1..Len(handled) :
       handled[i].failed => pc \in {"handle", "report"}
  /\ pc = "handle" => ENABLED HandleAlert
  /\ pc = "report" => ENABLED Report
  /\ (pc = "sleep" /\ cycle < MaxCycles) => ENABLED Sleep

C15_Witness ==
  /\ pc = "fetch"
  /\ cycle > 1
  /\ exit = <<>>
  /\ \E s \in DOMAIN last_alert_time : last_alert_time[s] = slept[1]

\* -------------------------------------------------------------------- C16
\* C16: lastPrice and lastAlertTime are written by the evaluation pass only:
\* a step that changes either map is the one check_volatility call of its
\* cycle (or the exit of the process), so no alert handler, daily-report
\* fetch or other cycle writes between the start and the end of a pass.
C16_OnlyEvaluationWrites ==
  [][(last_prices' # last_prices \/ last_alert_time' # last_alert_time)
       => \/ pc' = "stopped"
          \/ /\ pc = "check"
             /\ phases = <<"fetch">>
             /\ phases' = <<"fetch", "evaluate">>]_vars

C16_Witness ==
  /\ pc = "sleep"
  /\ last_daily_report = <<cycle_start>>
  /\ cycle > 1
  /\ \E s \in DOMAIN last_alert_time : last_alert_time[s] = cycle_start
  /\ \E s \in DOMAIN last_prices : last_prices[s] # 100

C18_ShutdownClosesFetcher ==
  (pc = "stopped" /\ exit.cause = "signal") => exit.closed

\* -------------------------------------------------------------------- C19
\* C19: an alert whose analysis failed is not dropped: _handle_alert got a
\* fallback text from the Analyzer and called the Notifier with it.
C19_FallbackIsNotified ==
  \A i \in 1..Len(handled) :
    handled[i].analysis # "report" =>
      /\ handled[i].analysis \in FallbackTexts
      /\ handled[i].notified

C19_Witness ==
  \E i, j \in 1..Len(handled) :
    /\ handled[i].analysis = "error during analysis"
    /\ handled[i].notified
    /\ handled[j].analysis = "service unavailable"
    /\ handled[j].notified

\* -------------------------------------------------------------------- C20
\* the sign of an integer
Sign(x) == IF x > 0 THEN 1 ELSE IF x < 0 THEN -1 ELSE 0

\* the fraction v is the quotient (current - previous) / previous
IsRelativeChange(v, current, previous) ==
  /\ v[2] > 0
  /\ v[1] * previous = (current - previous) * v[2]

\* what check_volatility computed for the sample of s, and the volatility of
\* every alert it returned for s
VolatilitiesOf(s) ==
  {calculate_volatility(price_data[s].price, Previous(s))}
    \cup {alerts[i].volatility : i \in AlertsFor(s)}

\* C20 as claimed: for previous # 0 the volatility is
\* (current - previous) / previous and its sign is the direction of the
\* move; for previous = 0 it is 0.
C20_SignIsDirection ==
  \A s \in WellFormed : \A v \in VolatilitiesOf(s) :
    IF Previous(s) = 0 THEN v[1] = 0
    ELSE /\ IsRelativeChange(v, price_data[s].price, Previous(s))
         /\ Sign(v[1]) = Sign(price_data[s].price - Previous(s))

\* C20 as amended: for previous # 0 the volatility is
\* (current - previous) / previous, whose sign is the direction of the move
\* when previous > 0 and the opposite when previous < 0; for previous = 0
\* it is 0.
C20_RelativeChange ==
  \A s \in WellFormed : \A v \in VolatilitiesOf(s) :
    IF Previous(s) = 0 THEN v[1] = 0
    ELSE /\ IsRelativeChange(v, price_data[s].price, Previous(s))
         /\ Previous(s) > 0
              => Sign(v[1]) = Sign(price_data[s].price - Previous(s))
         /\ Previous(s) < 0
              => Sign(v[1]) = -Sign(price_data[s].price - Previous(s))

C20_Witness ==
  \E s \in WellFormed :
    /\ Previous(s) < 0
    /\ price_data[s].price > 0
    /\ \E i \in AlertsFor(s) : alerts[i].volatility[1] < 0

\* -------------------------------------------------------------------- C21
\* the change of the same size in the other direction
Negated(v) == <<-v[1], v[2]>>

\* C21: check_threshold(symbol, v) is true exactly when |v| is at least the
\* threshold of the symbol's instrument, equality included, and it answers
\* the same for v and for -v.
C21_ThresholdInclusiveSymmetric ==
  \A s \in WellFormed :
    /\ check_threshold(s, Change(s)) <=> Triggered(s)
    /\ check_threshold(s, Negated(Change(s))) <=> check_threshold(s, Change(s))

C21_Witness ==
  \E s \in WellFormed :
    /\ s \in DOMAIN pre.last_prices
    /\ Change(s)[1] * Assets[Instrument(s)].threshold[2]
         = Assets[Instrument(s)].threshold[1] * Change(s)[2]
    /\ check_threshold(s, Negated(Change(s)))
    /\ AlertsFor(s) # {}

\* -------------------------------------------------------------------- C22
\* C22: when lastPrice[symbol] exists, the change reaches the instrument's
\* threshold and the symbol has no lastAlertTime, check_volatility returns
\* an alert for the symbol whose previous price is lastPrice[symbol] as it
\* was before the call, whose current price is the sample's price, whose
\* volatility is (current - previous) / previous, and whose threshold and
\* level are the instrument's.
C22_AlertCarriesTheMove ==
  \A s \in WellFormed :
    (/\ s \in DOMAIN pre.last_prices
     /\ Triggered(s)
     /\ s \notin DOMAIN pre.last_alert_time)
      => /\ AlertsFor(s) # {}
         /\ \A i \in AlertsFor(s) :
              /\ alerts[i].last_price = pre.last_prices[s]
              /\ alerts[i].current_price = price_data[s].price
              /\ IsRelativeChange(alerts[i].volatility, price_data[s].price,
                                  pre.last_prices[s])
              /\ alerts[i].threshold = Assets[Instrument(s)].threshold
              /\ alerts[i].level = Assets[Instrument(s)].level

\* 100 -> 110 at a threshold of 0.05 fires with a volatility of +0.10
C22_Witness ==
  /\ "BTC/USDT" \in WellFormed
  /\ "BTC/USDT" \in DOMAIN pre.last_prices
  /\ "BTC/USDT" \notin DOMAIN pre.last_alert_time
  /\ pre.last_prices["BTC/USDT"] = 100
  /\ \E i \in AlertsFor("BTC/USDT") :
       /\ alerts[i].current_price = 110
       /\ alerts[i].last_price = 100
       /\ alerts[i].volatility = <<10, 100>>

\* -------------------------------------------------------------------- C30
\* the cooldown decision in the order of the specification's step 4: the
\* lookup of the event log first (no entry: fire), then the doubling
\* override, then the window of lastAlertTime (absent: fire)
SuppressedLookupFirst(lat, events, up, t, symbol, volatility) ==
  LET last == get_last_alert(events, up, symbol)
  IN IF last = <<>> THEN FALSE
     ELSE IF Reaches(volatility, 2, last[1].volatility) THEN FALSE
     ELSE symbol \in DOMAIN lat /\ t - lat[symbol] < cooldown_period

\* what is_in_cooldown answers for the sample of s in this call
InCooldown(s) ==
  is_in_cooldown(pre.last_alert_time, pre.event_log, pre.dbUp, pre.now, s,
                 Change(s))

\* C30: is_in_cooldown, which tests lastAlertTime before it looks the event
\* log up, decides as the lookup-first order of the specification does for
\* every combination of lastAlertTime, event log entry, volatility and
\* elapsed time: a triggered sample is suppressed exactly when lastAlertTime
\* exists, the lookup returns a last event, |volatility| is below twice that
\* event's |volatility| and elapsed < cooldownPeriod; without an event log
\* entry, and at elapsed = cooldownPeriod, the alert fires.
C30_SameDecisionEitherOrder ==
  \A s \in WellFormed :
    /\ InCooldown(s)
         <=> SuppressedLookupFirst(pre.last_alert_time, pre.event_log,
                                   pre.dbUp, pre.now, s, Change(s))
    /\ pre.dbUp => (InCooldown(s) <=> (InWindow(s) /\ BelowDouble(s)))
    /\ (Triggered(s) /\ s \in DOMAIN pre.last_prices)
         => (AlertsFor(s) = {} <=> InCooldown(s))

\* elapsed = cooldownPeriod with a last event that is not doubled: fires
C30_Witness ==
  \E s \in WellFormed :
    /\ s \in DOMAIN pre.last_alert_time
    /\ pre.now - pre.last_alert_time[s] = cooldown_period
    /\ pre.dbUp
    /\ BelowDouble(s)
    /\ Triggered(s)
    /\ AlertsFor(s) # {}

\* -------------------------------------------------------------------- C23
\* the row a call of save_price stores: its arguments and the clock
SavedRow == [symbol |-> call.symbol, price |-> call.price,
             volume |-> call.volume, timestamp |-> now]

\* C23: the price log is append-only without deduplication: a call of
\* save_price that the store accepts adds exactly one row after the rows
\* that were there, whether or not an identical row exists already (two
\* calls with identical arguments add two rows), and no call of save_price
\* removes or collapses rows.
C23_AppendOnlyNoDedup ==
  call.op = "save_price" =>
    /\ Len(price_history) >= Len(call.before)
    /\ SubSeq(price_history, 1, Len(call.before)) = call.before
    /\ call.up => price_history = Append(call.before, SavedRow)

\* the second of two calls with identical arguments has added its row
C23_Witness ==
  /\ call.op = "save_price"
  /\ call.up
  /\ Len(call.before) >= 1
  /\ call.before[Len(call.before)] = SavedRow
  /\ Len(price_history) = Len(call.before) + 1
  /\ price_history[Len(price_history)] = SavedRow

\* -------------------------------------------------------------------- C24
\* C24: save_price never raises to its caller: when the insert fails the
\* failure is logged, the call returns normally and the price log is
\* unchanged.
C24_SavePriceSwallowsFailure ==
  call.op = "save_price" =>
    /\ ~call.raised
    /\ ~call.up => (call.logged /\ price_history = call.before)

C24_Witness ==
  /\ call.op = "save_price"
  /\ ~call.up
  /\ ~call.raised
  /\ call.before # <<>>
  /\ price_history = call.before

\* -------------------------------------------------------------------- C25
\* C25: get_last_alert(symbol), the store answering, returns the entry of
\* the event log with the greatest timestamp among the entries of that
\* symbol, never an entry of another symbol, and returns none exactly when
\* the event log has no entry for the symbol.
C25_LastAlertIsNewestOfSymbol ==
  (call.op = "get_last_alert" /\ call.up) =>
    /\ call.result = <<>> <=> RowsOf(event_log, call.symbol) = {}
    /\ call.result # <<>> =>
         /\ call.result[1].symbol = call.symbol
         /\ \E i \in Newest(event_log, call.symbol) :
              call.result[1] = event_log[i]

\* the newest entry of the symbol is neither the newest of the log nor the
\* one saved last
C25_Witness ==
  /\ call.op = "get_last_alert"
  /\ call.up
  /\ call.result # <<>>
  /\ call.result[1] # event_log[Len(event_log)]
  /\ \E i \in 1..Len(event_log) :
       /\ event_log[i].symbol # call.symbol
       /\ event_log[i].timestamp > call.result[1].timestamp
  /\ \E i \in RowsOf(event_log, call.symbol) :
       event_log[i].timestamp < call.result[1].timestamp

\* -------------------------------------------------------------------- C26
\* how long before this moment a row was stamped
Age(row) == now - row.timestamp

\* a sequence of rows is ordered newest first
NewestFirst(r) ==
  \A i, j \in 1..Len(r) : i < j => r[i].timestamp >= r[j].timestamp

\* how often a row occurs in a sequence of rows
Count(r, row) == Cardinality({i \in 1..Len(r) : r[i] = row})

\* the entries of the event log that get_similar_events is asked for: of
\* the symbol, with |volatility| at least 0.8 times that of the call, and
\* stamped inside the trailing window of the call
Similar ==
  {i \in RowsOf(event_log, call.symbol) :
     /\ Reaches(event_log[i].volatility, 1,
                <<8 * call.volatility[1], 10 * call.volatility[2]>>)
     /\ Age(event_log[i]) <= call.days * DaySeconds}

\* C26: get_similar_events(symbol, volatility, windowDays) returns at most 5
\* entries, all of the given symbol, all with |storedVolatility| >=
\* 0.8 * |volatility| and a timestamp inside the trailing windowDays,
\* ordered newest first, and they are the 5 newest entries satisfying
\* those conditions.
C26_SimilarEventsNewestFive ==
  (call.op = "get_similar_events" /\ call.up) =>
    /\ Len(call.result) <= 5
    /\ NewestFirst(call.result)
    /\ \A k \in 1..Len(call.result) :
         \E i \in Similar : event_log[i] = call.result[k]
    /\ Len(call.result) = IF Cardinality(Similar) < 5
                            THEN Cardinality(Similar) ELSE 5
    /\ \A i \in Similar :
         \/ \E k \in 1..Len(call.result) : call.result[k] = event_log[i]
         \/ \A k \in 1..Len(call.result) :
              call.result[k].timestamp >= event_log[i].timestamp

\* -------------------------------------------------------------------- C27
\* C27: get_price_history(symbol, windowHours) returns exactly the rows of
\* the symbol whose stored timestamp lies within the last windowHours
\* before the query, newest first: a row that save_price wrote less than
\* windowHours ago is always included, a row written more than windowHours
\* ago never.
C27_PriceHistoryIsTheWindow ==
  (call.op = "get_price_history" /\ call.up) =>
    /\ NewestFirst(call.result)
    /\ \A k \in 1..Len(call.result) : call.result[k].symbol = call.symbol
    /\ \A i \in RowsOf(price_history, call.symbol) :
         /\ Age(price_history[i]) < call.hours * HourLength
              => Count(call.result, price_history[i])
                   = Count(price_history, price_history[i])
         /\ Age(price_history[i]) > call.hours * HourLength
              => Count(call.result, price_history[i]) = 0

\* -------------------------------------------------------------------- C28
\* C28: cleanup_old_data(days) deletes from the price log and from the event
\* log every row older than the cutoff, now minus days, and no row newer
\* than it; when the store fails it does not raise.
C28_CleanupCutsAtTheCutoff ==
  call.op = "cleanup_old_data" =>
    /\ ~call.raised
    /\ call.up =>
         LET Newer(row) == Age(row) <= call.days * DaySeconds
         IN /\ price_history = SelectSeq(call.prices, Newer)
            /\ event_log = SelectSeq(call.events, Newer)

\* -------------------------------------------------------------------- C29
\* the fraction v is a / b - 1, or 0 when b is 0
ChangeAgainst(v, a, b) ==
  IF b = 0 THEN v[1] = 0 ELSE IsRelativeChange(v, a, b)

\* C29: for a traditional instrument the reported change is
\* (latest close - previous close) / previous close when the history has
\* at least two rows and (close - open) / open when it has one row, a zero
\* denominator yields a change of 0, and an empty history is a fetch
\* failure: no sample.
C29_ChangeAgainstPreviousClose ==
  (call.op = "fetch_traditional_price" /\ call.answer.kind = "history") =>
    LET info == call.answer.info
        n == Len(info)
    IN /\ n = 0 => call.result.kind = "none"
       /\ n >= 1 => /\ call.result.kind = "dict"
                    /\ call.result.price = info[n].Close
       /\ n = 1 => ChangeAgainst(call.result.change_24h, info[n].Close,
                                 info[n].Open)
       /\ n >= 2 => ChangeAgainst(call.result.change_24h, info[n].Close,
                                  info[n - 1].Close)

\* two rows that closed at 50 and at 51, the second one opening at 49
C29_Witness ==
  /\ call.op = "fetch_traditional_price"
  /\ call.answer.kind = "history"
  /\ Len(call.answer.info) = 2
  /\ call.answer.info[1].Close = 50
  /\ call.answer.info[2] = [Open |-> 49, Close |-> 51]
  /\ call.result.kind = "dict"
  /\ call.result.change_24h = <<1, 50>>

\* -------------------------------------------------------------------- C31
\* the entry of a dict for one key, as a sequence of at most one value
EntryOf(d, s) == IF s \in DOMAIN d THEN <<d[s]>> ELSE <<>>

\* the rows of a table for one symbol, in the order they were written
RowsFor(rows, s) == SelectSeq(rows, LAMBDA row : row.symbol = s)

\* C31: for every symbol absent from its samples map check_volatility
\* leaves lastPrice and lastAlertTime as they were and writes no price
\* row; the next sample of the symbol is compared with the last price
\* observed for it (the price of the last row saved for it while the
\* store has answered throughout), however many cycles ago that was.
C31_AbsentSymbolUntouched ==
  pre.called =>
    /\ \A s \in Symbols \ Sampled :
         /\ EntryOf(last_prices, s) = EntryOf(pre.last_prices, s)
         /\ EntryOf(last_alert_time, s) = EntryOf(pre.last_alert_time, s)
         /\ RowsFor(price_history, s) = RowsFor(pre.price_history, s)
    /\ \A s \in Sampled :
         (pre.dbUp /\ RowsFor(pre.price_history, s) # <<>>) =>
           LET seen == RowsFor(pre.price_history, s)
           IN /\ Previous(s) = seen[Len(seen)].price
              /\ \A i \in AlertsFor(s) :
                   alerts[i].last_price = seen[Len(seen)].price

\* BTC/USDT had no sample in a cycle in which GC=F had one, and its next
\* sample fires against the price of the cycle before that
C31_Witness ==
  /\ pre.called
  /\ pre.dbUp
  /\ \E s \in Sampled, u \in Symbols :
       LET seen == RowsFor(pre.price_history, s)
           other == RowsFor(pre.price_history, u)
       IN /\ seen # <<>>
          /\ other # <<>>
          /\ other[Len(other)].timestamp > seen[Len(seen)].timestamp
          /\ \E i \in AlertsFor(s) :
               alerts[i].last_price = seen[Len(seen)].price

\* -------------------------------------------------------------------- C32
\* C32: the alerts of one cycle are handled independently: a failure of
\* the Notifier or of any step of _handle_alert for one alert is caught and
\* logged, never leaves fetch_and_monitor or ends main_loop, and the
\* remaining alerts of the cycle are still analyzed and notified.
C32_AlertsHandledIndependently ==
  /\ ~loop_error
  /\ exit = <<>>
  /\ Len(handled) = next_alert - 1
  /\ pc = "handle" <=> next_alert <= Len(alerts)
  /\ \A i \in 1..Len(handled) :
       /\ handled[i].symbol = alerts[i].symbol
       /\ handled[i].analysis # "none"
       /\ handled[i].notified

\* the message of the first alert was not delivered and its handler
\* failed; the second alert was analyzed, notified and delivered
C32_Witness ==
  /\ Len(handled) = 2
  /\ ~handled[1].delivered
  /\ handled[1].failed
  /\ handled[2].notified
  /\ handled[2].delivered
  /\ pc = "report"

\* -------------------------------------------------------------------- C33
\* C33: when evaluating a symbol inside check_volatility raises, the state
\* of the symbol is as before the call: lastPrice[symbol] and
\* lastAlertTime[symbol] are unchanged, the result holds no alert for the
\* symbol, and no price row is written for it.
C33_RaisingSymbolUntouched ==
  \A s \in Sampled \ WellFormed :
    /\ EntryOf(last_prices, s) = EntryOf(pre.last_prices, s)
    /\ EntryOf(last_alert_time, s) = EntryOf(pre.last_alert_time, s)
    /\ AlertsFor(s) = {}
    /\ RowsFor(price_history, s) = RowsFor(pre.price_history, s)

\* the symbol that raised had a last price and a last alert time, and the
\* call went on to write rows for another symbol
C33_Witness ==
  \E s \in Sampled \ WellFormed :
    /\ s \in DOMAIN last_prices
    /\ s \in DOMAIN last_alert_time
    /\ last_prices[s] = pre.last_prices[s]
    /\ Len(price_history) > Len(pre.price_history)
    /\ alerts # <<>>

\* -------------------------------------------------------------------- C34
\* the prices observed for a symbol so far, oldest first (the store has
\* accepted every save)
Observed(s) ==
  LET seen == RowsFor(price_history, s)
  IN [k \in 1..Len(seen) |-> seen[k].price]

\* every step of a sequence of prices stays below the symbol's threshold
SmallSteps(s, prices) ==
  \A k \in 2..Len(prices) :
    ~Reaches(<<prices[k] - prices[k - 1], prices[k - 1]>>, 1,
             Assets[Instrument(s)].threshold)

\* C34: volatility is measured against the immediately preceding observed
\* price, never against the price at the last alert: as long as every
\* single step |price_k - price_(k-1)| / price_(k-1) of a symbol stays
\* below its threshold no alert is ever produced for it, however large
\* the move from the first price has become.
C34_SmallStepsNeverAlert ==
  \A s \in Symbols :
    SmallSteps(s, Observed(s)) =>
      /\ s \notin DOMAIN fired
      /\ AlertsFor(s) = {}
      /\ s \notin DOMAIN last_alert_time

\* 100, 104, 108: two steps below 5%, 8% in all, and no alert
C34_Witness ==
  /\ Observed("BTC/USDT") = <<100, 104, 108>>
  /\ pc = "report"
  /\ "BTC/USDT" \notin DOMAIN fired
  /\ last_prices["BTC/USDT"] = 108

\* -------------------------------------------------------------------- C35
\* C35: the daily report is sent at most once per calendar day and only in
\* a cycle whose clock is at or after the report time, and lastDailyReport
\* is set only after the fetch, the generation and the sending of the
\* report have returned: while the process runs lastDailyReport changes
\* only in generate_daily_report, at or after the report time, when no
\* report went out on that date, to the time of that cycle, and not in a
\* cycle whose calls do not return.
C35_ReportOncePerDay ==
  [][(last_daily_report' # last_daily_report /\ pc' # "stopped") =>
       /\ pc = "report"
       /\ pc' = "sleep"
       /\ time_of_day(now) >= DAILY_REPORT_TIME
       /\ last_daily_report # <<>>
            => date_of(last_daily_report[1]) # date_of(now)
       /\ last_daily_report' = <<now>>]_vars

\* a report went out in an earlier cycle and this cycle, still past the
\* report time on the same date, has sent none
C35_Witness ==
  /\ pc = "sleep"
  /\ last_daily_report # <<>>
  /\ last_daily_report[1] < cycle_start
  /\ date_of(last_daily_report[1]) = date_of(cycle_start)
  /\ time_of_day(cycle_start) >= DAILY_REPORT_TIME

\* -------------------------------------------------------------------- C36
\* the concatenation of a sequence of texts
RECURSIVE Joined(_)
Joined(parts) ==
  IF parts = <<>> THEN <<>> ELSE Head(parts) \o Joined(Tail(parts))

\* C36: the chunking loop terminates for every report text (every
\* iteration takes at least one character off the text, so it has run at
\* most once per character), every chunk has at most 4000 characters, and
\* the chunks joined in order are the report.
C36_ChunkingTerminates ==
  /\ Len(chunks) <= Len(report) + 1
  /\ \A k \in 1..Len(chunks) : Len(chunks[k]) <= ChunkLimit
  /\ Joined(chunks) \o (IF pc = "send" THEN <<>> ELSE current_chunk) = report

\* -------------------------------------------------------------------- C37
\* the Monitor's maps and the logs as reset_cooldown left them: as they
\* are before check_volatility is called, as they were at the call after it
AfterReset ==
  IF pre.called
    THEN [last_alert_time |-> pre.last_alert_time,
          last_prices |-> pre.last_prices,
          price_history |-> pre.price_history,
          event_log |-> pre.event_log]
    ELSE [last_alert_time |-> last_alert_time, last_prices |-> last_prices,
          price_history |-> price_history, event_log |-> event_log]

\* C37: reset_cooldown(symbol) removes only lastAlertTime[symbol]: lastPrice,
\* the lastAlertTime of every other symbol and both logs are unchanged, for
\* a symbol without an entry nothing changes, and the next triggered sample
\* of the symbol fires an alert whatever the event log holds.
C37_ResetRemovesOneEntry ==
  call.op = "reset_cooldown" =>
    /\ call.symbol \notin DOMAIN AfterReset.last_alert_time
    /\ \A s \in Symbols \ {call.symbol} :
         EntryOf(AfterReset.last_alert_time, s)
           = EntryOf(call.last_alert_time, s)
    /\ AfterReset.last_prices = call.last_prices
    /\ AfterReset.price_history = call.price_history
    /\ AfterReset.event_log = call.event_log
    /\ call.symbol \notin DOMAIN call.last_alert_time
         => AfterReset.last_alert_time = call.last_alert_time
    /\ (/\ call.symbol \in WellFormed
        /\ call.symbol \in DOMAIN pre.last_prices
        /\ Triggered(call.symbol))
         => AlertsFor(call.symbol) # {}

\* the reset symbol was inside its cooldown window with a last event it
\* does not double, another symbol kept its entry, and the sample fired
C37_Witness ==
  /\ call.op = "reset_cooldown"
  /\ pre.called
  /\ call.symbol \in DOMAIN call.last_alert_time
  /\ pre.now - call.last_alert_time[call.symbol] < cooldown_period
  /\ pre.dbUp
  /\ call.symbol \in WellFormed
  /\ call.symbol \in DOMAIN pre.last_prices
  /\ Triggered(call.symbol)
  /\ BelowDouble(call.symbol)
  /\ \E s \in Symbols \ {call.symbol} : s \in DOMAIN pre.last_alert_time
  /\ AlertsFor(call.symbol) # {}

====
